---- MODULE Spec2Model ----
(***************************************************************************)
(* ChatGPT-GUI: the Client's token lifecycle, its _get / refresh_auth      *)
(* call structure and send_message, modelled as a call-stack machine.      *)
(*                                                                         *)
(* Strings that the code converts (session tokens, access tokens, cookie   *)
(* values) are sequences of units: a plain character, a blank " " or the   *)
(* three-character escape "%20".  Every other optional value is a string,  *)
(* with "None" for Python's None.  A datetime is held as its relation to   *)
(* the wall clock, "future" or "past"; the clock advancing turns "future"  *)
(* into "past".                                                            *)
(*                                                                         *)
(* The server is the environment: every GET and POST is answered by a      *)
(* nondeterministically chosen status code, body kind and Set-Cookie.      *)
(* Cookies the server sets are stored under the host domain and path "/",  *)
(* the same key Client.set_cookie uses; the server sets a session cookie   *)
(* only in answer to a request that carried one.                           *)
(***************************************************************************)
EXTENDS Integers, Sequences, FiniteSets, TLC

(***************************************************************************)
(* Bounds of the model.                                                    *)
(***************************************************************************)
MaxDepth == 6
MaxSends == 2
MaxSignIns == 2

(***************************************************************************)
(* Values.                                                                 *)
(***************************************************************************)
None == <<"None">>
NoneS == "None"

\* kwarg / CHATGPT_SESSION_AUTH values at construction
InitTokens == {None, <<>>, <<"a">>}
\* values handed to the session_token setter by a caller
SetterValues == {<<"a">>, <<"%20", "b">>}
\* session cookies the server may set
ServerCookies == {<<"b">>}
\* the session cookie the Authenticator's handshake obtains
AuthTokens == {<<"c">>}
\* accessToken values of the session endpoint
AccessTokens == {<<"t">>}

Codes == {200, 401, 500}
Bodies == {"full", "empty", "notjson"}
Paths == {"chat", "api/auth/session", "backend-api/models", "_next/image"}
ConversationIds == {"k1", "k2"}

Truthy(s) == s # None /\ s # <<>>

(***************************************************************************)
(* urllib.parse.unquote and str.strip on unit sequences.                   *)
(***************************************************************************)
decode_url(s) == [i \in 1..Len(s) |-> IF s[i] = "%20" THEN " " ELSE s[i]]

RECURSIVE lstrip(_)
lstrip(s) == IF s # <<>> /\ Head(s) = " " THEN lstrip(Tail(s)) ELSE s

RECURSIVE rstrip(_)
rstrip(s) ==
    IF s # <<>> /\ s[Len(s)] = " " THEN rstrip(SubSeq(s, 1, Len(s) - 1)) ELSE s

strip(s) == rstrip(lstrip(s))

(***************************************************************************)
(* Session (structures.py).                                                *)
(***************************************************************************)
Session ==
    [user |-> NoneS, cf_bm |-> NoneS, cf_unique_visitor_id |-> NoneS,
     cf_clearance |-> NoneS, cf_expires |-> NoneS, session_expires |-> NoneS,
     session_token |-> None, user_agent |-> NoneS]

Session_clear(s) == Session

\* a datetime: one before now, one after now on a whole second, one after
\* now with microseconds (as dt.datetime.now() + dt.timedelta(hours=1))
DateTimes == {"past", "future", "future_us"}

\* the date and time of a datetime to the second, and its microseconds
second_of(t) ==
    CASE t = "past" -> "1970-01-01T00:00:00"
      [] t = "future" -> "9999-12-31T23:59:59"
      [] t = "future_us" -> "9999-12-31T23:59:59"

microsecond_of(t) ==
    CASE t = "past" -> "000000"
      [] t = "future" -> "000000"
      [] t = "future_us" -> "000123"

\* the format of the timestamps, '%Y-%m-%dT%H:%M:%S.%fZ': the second, a
\* dot, the microseconds on six digits, a Z
CG_DATE_FORMAT == <<"%Y-%m-%dT%H:%M:%S", ".", "%f", "Z">>

\* t.strftime(CG_DATE_FORMAT): the text of a datetime, piece by piece
strftime(t) ==
    [i \in 1..Len(CG_DATE_FORMAT) |->
        CASE CG_DATE_FORMAT[i] = "%Y-%m-%dT%H:%M:%S" -> second_of(t)
          [] CG_DATE_FORMAT[i] = "%f" -> microsecond_of(t)
          [] OTHER -> CG_DATE_FORMAT[i]]

\* dt.datetime.strptime(text, CG_DATE_FORMAT): the datetime of a text, or
\* "ValueError" for a text that does not match the format
strptime(text) ==
    LET matches == {t \in DateTimes : strftime(t) = text}
    IN  IF Len(text) = Len(CG_DATE_FORMAT) /\ matches # {}
        THEN CHOOSE t \in matches : TRUE
        ELSE "ValueError"

\* User.to_json and User.from_json (lines 129-144): the items of the dict
User_to_json(u) == <<(<<"id", u>>)>>
User_from_json(d) == d[1][2]

\* Session.to_json (lines 207-220); {} is the empty sequence of items and
\* null is None
Session_to_json(s) ==
    [user |-> IF s.user # NoneS THEN User_to_json(s.user) ELSE <<>>,
     cloudflare |-> [bm |-> s.cf_bm,
                     unique_visitor_id |-> s.cf_unique_visitor_id,
                     clearance |-> s.cf_clearance,
                     expires |-> IF s.cf_expires # NoneS
                                 THEN strftime(s.cf_expires) ELSE None],
     expires |-> IF s.session_expires # NoneS
                 THEN strftime(s.session_expires) ELSE None,
     token |-> s.session_token,
     user_agent |-> s.user_agent]

\* a from_json that reads both timestamps from the key 'expires' of data
from_json_one_expires(d) ==
    [user |-> IF d.user # None
              THEN IF d.user = <<>> THEN NoneS ELSE User_from_json(d.user)
              ELSE NoneS,
     cf_bm |-> d.cloudflare.bm,
     cf_unique_visitor_id |-> d.cloudflare.unique_visitor_id,
     cf_clearance |-> d.cloudflare.clearance,
     cf_expires |-> IF d.expires # None THEN strptime(d.expires)
                    ELSE NoneS,
     session_expires |-> IF d.expires # None THEN strptime(d.expires)
                         ELSE NoneS,
     session_token |-> d.token,
     user_agent |-> d.user_agent]

\* Session.from_json (lines 164-187) of a dict whose timestamps parse
Session_from_json(d) ==
    [user |-> IF d.user # None
              THEN IF d.user = <<>> THEN NoneS ELSE User_from_json(d.user)
              ELSE NoneS,
     cf_bm |-> d.cloudflare.bm,
     cf_unique_visitor_id |-> d.cloudflare.unique_visitor_id,
     cf_clearance |-> d.cloudflare.clearance,
     cf_expires |-> IF d.cloudflare.expires # None
                    THEN strptime(d.cloudflare.expires) ELSE NoneS,
     session_expires |-> IF d.expires # None THEN strptime(d.expires)
                         ELSE NoneS,
     session_token |-> d.token,
     user_agent |-> d.user_agent]

\* lines 173 and 176: the error strptime raises in from_json
from_json_raises(d) ==
    IF d.cloudflare.expires # None
       /\ strptime(d.cloudflare.expires) = "ValueError"
    THEN "ValueError"
    ELSE IF d.expires # None /\ strptime(d.expires) = "ValueError"
    THEN "ValueError"
    ELSE NoneS

Session_is_valid_clearance(s) ==
    s.cf_clearance # NoneS /\ s.cf_expires \in {"future", "future_us"}

(***************************************************************************)
(* State.                                                                  *)
(***************************************************************************)
VARIABLES
    session_data,     \* Client.session_data (shared with the Authenticator)
    cookie,           \* value of '__Secure-next-auth.session-token' in the jar
    file,             \* CG_SESSION_PATH: whether it exists, the token in it
    access_token,     \* Client._access_token
    first_request,    \* Client._first_request
    models,           \* Client.models
    conversation,     \* the Conversation handed to send_message
    conversations,    \* keys of Client.conversations
    stack,            \* call stack, innermost frame last
    ret,              \* what the last finished call returned
    op,               \* per top-level call: signals emitted, requests sent
    hist,             \* history of the Client since construction
    lastGet,          \* record of the last _get call that returned
    lastOp,           \* name of the step taken last
    authenticator,    \* Client.authenticator and the locals of its handshake
    cookieJar,        \* the cookies of a NetworkSession and its last call
    network           \* the headers, manager and replies of a NetworkSession

vars == <<session_data, cookie, file, access_token, first_request, models,
          conversation, conversations, stack, ret, op, hist, lastGet,
          lastOp, authenticator, cookieJar, network>>

SESSION_COOKIE == "__Secure-next-auth.session-token"
SESSION_PATH == "api/auth/session"
MODELS_PATH == "backend-api/models"
IMAGE_PATH == "_next/image"
CHAT_PATH == "chat"

NoFile == [exists |-> FALSE, token |-> None]

\* the file holding the dump d
Written(d) == [exists |-> TRUE, token |-> d.token]

Store == [session_data |-> session_data, cookie |-> cookie, file |-> file]

SetStore(st) ==
    /\ session_data' = st.session_data
    /\ cookie' = st.cookie
    /\ file' = st.file

SetStoreInit(st) ==
    /\ session_data = st.session_data
    /\ cookie = st.cookie
    /\ file = st.file

(***************************************************************************)
(* Client.save_session_data, the session_token setter and deleter.         *)
(***************************************************************************)
save_session_data(st) ==
    [st EXCEPT !.file = Written(Session_to_json(st.session_data))]

session_token_set(st, value) ==
    LET v == decode_url(value)
    IN  save_session_data(
            [st EXCEPT !.session_data.session_token = strip(v),
                       !.cookie = v])

\* a deleter that leaves the session file in place
session_token_del_keeping_file(st) ==
    [session_data |-> Session_clear(st.session_data),
     cookie |-> None,
     file |-> st.file]

session_token_del(st) ==
    [session_data |-> Session_clear(st.session_data),
     cookie |-> None,
     file |-> NoFile]

\* lines 261-262 and 417-418: resynchronise the token from the cookie jar
sync_from_jar(st) ==
    IF Truthy(st.cookie) THEN session_token_set(st, st.cookie) ELSE st

\* the observable state handed to a slot connected to a signal
Seen(st) ==
    [session_token |-> st.session_data.session_token,
     user |-> st.session_data.user,
     cookie |-> st.cookie,
     file_exists |-> st.file.exists]

(***************************************************************************)
(* Responses, return values, frames of the call stack.                     *)
(***************************************************************************)
NoResp == [code |-> 0, body |-> "none"]

RetNone == [kind |-> "none", resp |-> NoResp, val |-> NoneS]
RetResp(r) == [kind |-> "response", resp |-> r, val |-> NoneS]
RetVal(v) == [kind |-> "value", resp |-> NoResp, val |-> v]
Raised(e) == [kind |-> "raised", resp |-> NoResp, val |-> e]

\* an Action: the ids of its parent and its message, the id of its
\* conversation, and how many messages the conversation had when it was
\* built
NoAction ==
    [parent |-> 0, message |-> 0, conversation_id |-> NoneS, messages |-> 0]

ZeroGets == [p \in Paths |-> 0]

NoSeen ==
    [session_token |-> None, user |-> NoneS, cookie |-> None,
     file_exists |-> FALSE]

\* nothing emitted through receivedMessage yet
NoEmitted == [reply |-> 0, messages |-> <<>>]

OpStart ==
    [authenticationRequired |-> 0, signedOut |-> 0, receivedMessage |-> 0,
     deleted |-> 0, gets |-> ZeroGets, posts |-> 0, seen |-> NoSeen,
     text |-> <<>>, emitted |-> NoEmitted,
     \* of a sign-in: the requests of the handshake, the signals of the
     \* Authenticator, the error raised and the error reported, the login
     \* page, whether a text came before the captcha, the captcha texts
     \* delivered, the captcha field posted, the session token at the start
     requests |-> <<>>, authenticationFailed |-> 0,
     authenticationSuccessful |-> 0, captchaEncountered |-> 0,
     error |-> NoneS, reported |-> NoneS, page |-> NoneS, early |-> FALSE, solved |-> <<>>,
     payload |-> NoneS, token0 |-> None]

Frame(fn, path, update) ==
    [fn |-> fn, pc |-> "start", path |-> path, update |-> update,
     resp |-> NoResp, action |-> NoAction,
     \* bookkeeping of the call, read by the properties only
     boot |-> FALSE, held |-> access_token # None, gets0 |-> IF path \in Paths THEN op.gets[path] ELSE 0,
     usable |-> FALSE, refreshed |-> NoneS, retries |-> 0,
     retry_update |-> TRUE, retried |-> 0, requests |-> 0]

Depth == Len(stack)
Top == stack[Depth]
Running(fn, pc) == Depth > 0 /\ Top.fn = fn /\ Top.pc = pc

\* the running frame becomes f and calls callee
Call(f, callee) ==
    /\ Depth < MaxDepth
    /\ stack' = Append([stack EXCEPT ![Depth] = f], callee)
    /\ ret' = RetNone

Goto(f) == stack' = [stack EXCEPT ![Depth] = f] /\ ret' = RetNone

Return(r) == stack' = SubSeq(stack, 1, Depth - 1) /\ ret' = r

\* an exception that left a slot: Qt prints it, emit() returns
Printed(e) == [kind |-> "printed", resp |-> NoResp, val |-> e]

\* the calls that run as the slot of a signal
Slots ==
    {i \in 1..Depth :
        stack[i].fn \in {"new_session", "ConversationView.send_message"}}

\* nothing in the Client catches: the exception unwinds to the caller of the
\* top-level call, or to the emit() whose slot it was raised in
Raise(e) ==
    IF Slots = {}
    THEN stack' = <<>> /\ ret' = Raised(e)
    ELSE LET slot == CHOOSE i \in Slots : \A j \in Slots : j <= i
         IN  stack' = SubSeq(stack, 1, slot - 1) /\ ret' = Printed(e)

\* an expiry test that takes every recorded expiry date for a past one
IsExpired_any(s) == s.session_expires # NoneS

\* lines 391-392
IsExpired(s) == s.session_expires # NoneS /\ s.session_expires = "past"

is_error_status(code) == 400 <= code /\ code < 600

\* a refresh_auth that does not look at the expiry date
refresh_blocked_without_expiry(s) == ~Truthy(s.session_token)

\* refresh_auth, lines 390-393: there is no token, or it has expired
refresh_blocked(s) == ~Truthy(s.session_token) \/ IsExpired(s)

\* what the properties record about a _get call when it returns
GetRecord(f, r) ==
    [valid |-> TRUE, path |-> f.path, update |-> f.update, held |-> f.held,
     boot |-> f.boot, usable |-> f.usable,
     first |-> f.resp.code, refreshed |-> f.refreshed, retries |-> f.retries,
     retry_update |-> f.retry_update, retried |-> f.retried,
     requests |-> f.requests,
     total |-> op.gets[f.path] - f.gets0, code |-> r.code]

NoGetRecord ==
    [valid |-> FALSE, path |-> NoneS, update |-> TRUE, held |-> FALSE,
     boot |-> FALSE, usable |-> FALSE,
     first |-> 0, refreshed |-> NoneS, retries |-> 0, retry_update |-> TRUE,
     retried |-> 0, requests |-> 0, total |-> 0, code |-> 0]

HistStart(st) ==
    [warmups |-> 0, first_get |-> NoneS, boot |-> <<>>,
     had_token |-> Truthy(st.session_data.session_token),
     authenticationRequired |-> FALSE, posted |-> FALSE,
     uuids |-> 0, sends |-> 0, sent |-> <<>>, replied |-> NoneS,
     sign_ins |-> 0]

\* hist after a step that leaves the store as st
Witnessed(h, st) ==
    [h EXCEPT !.had_token = @ \/ Truthy(st.session_data.session_token)]

(***************************************************************************)
(* Authenticator.__init__ (auth.py lines 60-74): the credentials, the       *)
(* cookies of its own tls_client session, and the locals of the handshake  *)
(* that is running (state is not kept between attempts).                   *)
(***************************************************************************)
Authenticator ==
    [username |-> NoneS, password |-> NoneS,
     \* self.session.cookies
     session_token |-> None, cf_bm |-> NoneS, cf_clearance |-> NoneS,
     \* locals of cloudflare_clearance
     clearance_obtained |-> FALSE, listens_user_agent |-> FALSE,
     \* locals of _authenticate and handle_captcha
     captcha |-> NoneS, connected |-> FALSE, holder |-> <<>>]

(***************************************************************************)
(* NetworkSession: the QNetworkCookieJar of its manager (manager.py).  A   *)
(* cookie is identified by its name, domain and path.                      *)
(***************************************************************************)
MaxCookies == 3

JarNames == {"n1", "n2"}
JarDomains == {"d1", "d2"}
JarPaths == {"/", "/p"}
JarValues == {"v1", "v2"}

QNetworkCookie(name, value, domain, path) ==
    [name |-> name, value |-> value, domain |-> domain, path |-> path]

hasSameIdentifier(a, b) ==
    a.name = b.name /\ a.domain = b.domain /\ a.path = b.path

\* QNetworkCookieJar.insertCookie: replaces the cookie of the same identifier
insertCookie(cookies, c) ==
    {x \in cookies : ~hasSameIdentifier(x, c)} \cup {c}

deleteCookie_kept(cookies, c) == [cookies |-> cookies, deleted |-> TRUE]

\* QNetworkCookieJar.deleteCookie: removes the cookie of the same identifier
\* and tells whether there was one
deleteCookie(cookies, c) ==
    [cookies |-> {x \in cookies : ~hasSameIdentifier(x, c)},
     deleted |-> \E x \in cookies : hasSameIdentifier(x, c)]

NoCall ==
    [fn |-> NoneS, domain |-> NoneS, path |-> NoneS, name |-> NoneS,
     before |-> {}, raised |-> NoneS, returned |-> FALSE]

\* NetworkSession.__init__ (manager.py lines 167-176): an empty jar
NetworkSession == [cookies |-> {}, call |-> NoCall]

\* lines 250-274: "True", "False" or the exception raised
deletion_predicate(c, domain, path, name) ==
    IF name # NoneS
    THEN IF domain = NoneS \/ path = NoneS THEN "ValueError"
         ELSE IF c.name = name /\ c.domain = domain /\ c.path = path
              THEN "True" ELSE "False"
    ELSE IF path # NoneS
    THEN IF domain = NoneS THEN "ValueError"
         ELSE IF c.domain = domain /\ c.path = path THEN "True" ELSE "False"
    ELSE IF domain # NoneS
    THEN IF c.domain = domain THEN "True" ELSE "False"
    ELSE "True"

RECURSIVE clear_loop(_, _, _, _, _, _)
\* lines 276-281: the loop over allCookies(), todo being the cookies of the
\* snapshot not yet visited
clear_loop(todo, cookies, results, domain, path, name) ==
    IF todo = {}
    THEN [cookies |-> cookies, raised |-> NoneS,
          returned |-> TRUE \in results]
    ELSE LET c == CHOOSE x \in todo : TRUE
             verdict == deletion_predicate(c, domain, path, name)
         IN  IF verdict = "ValueError"
             THEN [cookies |-> cookies, raised |-> "ValueError",
                   returned |-> FALSE]
             ELSE IF verdict = "True"
             THEN LET del == deleteCookie(cookies, c)
                  IN  clear_loop(todo \ {c}, del.cookies,
                                 results \cup {del.deleted},
                                 domain, path, name)
             ELSE clear_loop(todo \ {c}, cookies, results,
                             domain, path, name)

\* NetworkSession.clear_cookies (lines 234-285)
clear_cookies ==
    /\ \E domain \in JarDomains \cup {NoneS}, path \in JarPaths \cup {NoneS},
          name \in JarNames \cup {NoneS} :
        LET done == clear_loop(cookieJar.cookies, cookieJar.cookies, {},
                               domain, path, name)
        IN  cookieJar' =
                [cookies |-> done.cookies,
                 call |-> [fn |-> "clear_cookies", domain |-> domain,
                           path |-> path, name |-> name,
                           before |-> cookieJar.cookies,
                           raised |-> done.raised,
                           returned |-> done.returned]]
    /\ UNCHANGED <<network, authenticator, session_data, cookie, file, access_token,
                   first_request, models, conversation, conversations, stack,
                   ret, op, hist, lastGet, lastOp>>

\* NetworkSession.set_cookie (lines 287-298)
NetworkSession_set_cookie ==
    /\ \E name \in JarNames, value \in JarValues, domain \in JarDomains,
          path \in JarPaths \cup {NoneS} :
        LET c == QNetworkCookie(name, value, domain,
                                IF path = NoneS THEN "/" ELSE path)
        IN  /\ Cardinality(insertCookie(cookieJar.cookies, c)) <= MaxCookies
            /\ cookieJar' =
                    [cookies |-> insertCookie(cookieJar.cookies, c),
                     call |-> [NoCall EXCEPT !.fn = "set_cookie",
                                             !.before = cookieJar.cookies,
                                             !.returned = TRUE]]
    /\ UNCHANGED <<network, authenticator, session_data, cookie, file, access_token,
                   first_request, models, conversation, conversations, stack,
                   ret, op, hist, lastGet, lastOp>>

(***************************************************************************)
(* CaseInsensitiveDict (models.py lines 68-194): _store, an OrderedDict    *)
(* from the lowered key to (key, value), is a sequence of entries in the   *)
(* order of insertion.                                                     *)
(***************************************************************************)
HeaderNames == {"X-Foo", "x-foo", "X-FOO", "Accept", "accept"}
HeaderValues == {"v1", "v2"}

\* str.lower
lower(key) ==
    CASE key \in {"X-Foo", "x-foo", "X-FOO"} -> "x-foo"
      [] key \in {"Accept", "accept"} -> "accept"
      [] key \in {"Cookie", "cookie"} -> "cookie"
      [] OTHER -> key

CaseInsensitiveDict == <<>>

\* where _store holds the key
Slot(d, key) == {i \in 1..Len(d) : d[i].lower = lower(key)}

setitem_cased(d, key, value) ==
    Append(d, [lower |-> key, key |-> key, value |-> value])

\* __setitem__ (lines 111-116): self._store[key.lower()] = (key, value)
setitem(d, key, value) ==
    LET entry == [lower |-> lower(key), key |-> key, value |-> value]
    IN  IF Slot(d, key) = {} THEN Append(d, entry)
        ELSE [i \in 1..Len(d) |-> IF i \in Slot(d, key) THEN entry ELSE d[i]]

\* __contains__ of MutableMapping over __getitem__ (lines 118-123)
contains(d, key) == Slot(d, key) # {}

\* __getitem__ (lines 118-123), "KeyError" when the key is missing
getitem(d, key) ==
    IF Slot(d, key) = {} THEN "KeyError"
    ELSE d[CHOOSE i \in Slot(d, key) : TRUE].value

IsNot(low, e) == e.lower # low

\* __delitem__ (lines 125-127)
delitem(d, key) ==
    LET low == lower(key)
    IN  SelectSeq(d, LAMBDA e : IsNot(low, e))

\* __iter__ (lines 129-131): the keys as they were last set
iter(d) == [i \in 1..Len(d) |-> d[i].key]

\* __len__ (lines 133-135)
len(d) == Len(d)

\* items() of MutableMapping
items(d) == [i \in 1..Len(d) |-> <<d[i].key, d[i].value>>]

RECURSIVE update(_, _)
\* MutableMapping.update with the items of a mapping
update(d, pairs) ==
    IF pairs = <<>> THEN d
    ELSE update(setitem(d, pairs[1][1], pairs[1][2]), Tail(pairs))

\* __or__ (lines 137-147)
CaseInsensitiveDict_or(d, pairs) ==
    update(update(CaseInsensitiveDict, items(d)), pairs)

(***************************************************************************)
(* NetworkSession.__init__ (manager.py lines 167-177): no default header,  *)
(* a QNetworkAccessManager with the redirect policy and the proxy of Qt,   *)
(* no reply.                                                               *)
(***************************************************************************)
\* the requests that are sent on the session, r1 before r2
Requests == {"r1", "r2"}

\* a QNetworkReply: its watchdog ("none", "armed", "fired"), whether it has
\* finished, whether the send that made it has returned
NoReply ==
    [sent |-> FALSE, timer |-> "none", finished |-> FALSE,
     aborted |-> FALSE, returned |-> FALSE]

NoSend ==
    [fn |-> NoneS, key |-> NoneS, value |-> NoneS, raised |-> NoneS,
     returned |-> NoneS,
     \* of a send: the request, its arguments, the session before it
     request |-> NoneS,
     allow_redirects |-> TRUE, proxies |-> <<"None">>, headers |-> <<>>,
     cookies |-> <<>>, timeout |-> NoneS, wait_until_finished |-> FALSE,
     request_cookies |-> <<>>,
     before |-> [headers |-> <<>>, cookies |-> {}, proxy |-> NoneS,
                 redirectPolicy |-> NoneS],
     \* the headers, redirect policy and proxy the request went out with
     dispatched |-> [headers |-> <<>>, redirectPolicy |-> NoneS,
                     proxy |-> NoneS],
     \* of a timeout of the watchdog: whether the reply had finished,
     \* whether it was aborted
     was_finished |-> FALSE, aborted |-> FALSE]

\* line 174
default_redirect_policy == "UserVerifiedRedirectPolicy"

NetworkSession_init ==
    [headers |-> CaseInsensitiveDict,
     \* the casing each logical key was last assigned with
     assigned |-> [low \in {lower(k) : k \in HeaderNames} |-> NoneS],
     \* QNetworkAccessManager(manager_parent), line 173: the policy and the
     \* proxy a manager of Qt 6 starts with
     redirectPolicy |-> "NoLessSafeRedirectPolicy",
     proxy |-> "DefaultProxy",
     \* the QNetworkReply of every request, and the requests whose send is
     \* in wait_for_reply, the innermost last
     replies |-> [r \in Requests |-> NoReply],
     waiting |-> <<>>,
     call |-> NoSend]

\* headers[key] = value
headers_set ==
    /\ \E key \in HeaderNames, value \in HeaderValues :
        network' =
            [network EXCEPT
                !.headers = setitem(@, key, value),
                !.assigned[lower(key)] = key,
                !.call = [NoSend EXCEPT !.fn = "set", !.key = key,
                                        !.value = value]]
    /\ UNCHANGED <<cookieJar, authenticator, session_data, cookie, file,
                   access_token, first_request, models, conversation,
                   conversations, stack, ret, op, hist, lastGet, lastOp>>

\* del headers[key]
headers_del ==
    /\ \E key \in HeaderNames :
        IF contains(network.headers, key)
        THEN network' =
                [network EXCEPT
                    !.headers = delitem(@, key),
                    !.assigned[lower(key)] = NoneS,
                    !.call = [NoSend EXCEPT !.fn = "del", !.key = key]]
        ELSE network' =
                [network EXCEPT
                    !.call = [NoSend EXCEPT !.fn = "del", !.key = key,
                                            !.raised = "KeyError"]]
    /\ UNCHANGED <<cookieJar, authenticator, session_data, cookie, file,
                   access_token, first_request, models, conversation,
                   conversations, stack, ret, op, hist, lastGet, lastOp>>

(***************************************************************************)
(* Request.send (manager.py lines 729-803) with _prepare_headers (648-666) *)
(* and _prepare_response (669-709).  Nothing between the first line of     *)
(* send and the call of wait_for_reply processes events, so send is one    *)
(* step up to there; the wait is ended by a step of its own.               *)
(***************************************************************************)
\* the arguments of a Request: items of the headers and cookies mappings,
\* the protocols of the proxies mapping (None: no mapping), the timeout
RequestHeaders == {<<>>, <<(<<"x-foo", "v2">>)>>}
RequestCookies == {<<>>, <<(<<"n1", "c1">>)>>}
RequestProxies == {<<"None">>, <<"http">>, <<"socks5", "gopher">>}
Timeouts == {NoneS, "0", "30.0"}

\* `if self.timeout:`
TruthyTimeout(t) == t \notin {NoneS, "0"}

\* lines 772-781: the QNetworkProxy of a protocol, or the error raised
proxy_type(protocol) ==
    CASE protocol = "" -> "NoProxy"
      [] protocol = "ftp" -> "FtpCachingProxy"
      [] protocol = "http" -> "HttpProxy"
      [] protocol = "socks5" -> "Socks5Proxy"
      [] OTHER -> "ValueError"

RECURSIVE set_proxies(_, _)
\* lines 769-785: the loop over self.proxies.items()
set_proxies(proxy, protocols) ==
    IF protocols = <<>> THEN [proxy |-> proxy, raised |-> NoneS]
    ELSE IF proxy_type(Head(protocols)) = "ValueError"
    THEN [proxy |-> proxy, raised |-> "ValueError"]
    ELSE set_proxies(proxy_type(Head(protocols)), Tail(protocols))

RECURSIVE dict_or(_, _)
\* a | b of two dicts, as their items: the value of b wins, a new key of b
\* goes last
dict_or(a, b) ==
    IF b = <<>> THEN a
    ELSE LET key == b[1][1]
             at == {i \in 1..Len(a) : a[i][1] = key}
         IN  dict_or(IF at = {} THEN Append(a, b[1])
                     ELSE [i \in 1..Len(a) |->
                            IF i \in at THEN b[1] ELSE a[i]],
                     Tail(b))

RECURSIVE cookies_of(_)
\* NetworkSession.cookies (lines 179-183): name and value of every cookie of
\* the jar, as the items of a dict
cookies_of(jar) ==
    IF jar = {} THEN <<>>
    ELSE LET c == CHOOSE x \in jar : TRUE
         IN  dict_or(<<(<<c.name, c.value>>)>>, cookies_of(jar \ {c}))

\* a header value that is a mapping and not a string
Mappings == {"<request_cookies>", "<headers>"}

\* _translate_header_value for 'Cookie' (lines 115-127): every value of the
\* mapping is encoded, which a value that is a mapping does not support
translate_cookie(d) ==
    IF \E i \in 1..Len(d) : d[i].value \in Mappings
    THEN "AttributeError" ELSE NoneS

\* _prepare_headers (lines 648-666): the headers after it and the error of
\* the translation loop
prepare_headers(d, cookies) ==
    LET headers == IF cookies # <<>> THEN setitem(d, "Cookie", "<headers>")
                   ELSE d
    IN  [headers |-> headers,
         raised |-> IF contains(headers, "Cookie")
                       /\ getitem(headers, "Cookie") = "<headers>"
                    THEN translate_cookie(headers)
                    ELSE NoneS]

\* lines 798-799
restored(policy) ==
    IF policy # default_redirect_policy THEN default_redirect_policy
    ELSE policy

timer_never(timeout) == "none"

\* lines 695-707: the watchdog of the reply
timer_of(timeout) == IF TruthyTimeout(timeout) THEN "armed" ELSE "none"

\* Request.send up to the call of wait_for_reply
send ==
    /\ \E r \in {x \in Requests : /\ ~network.replies[x].sent
                                  /\ x = "r2" => network.replies["r1"].sent},
          allow_redirects \in BOOLEAN, proxies \in RequestProxies,
          headers \in RequestHeaders, cookies \in RequestCookies,
          timeout \in Timeouts, wait_until_finished \in BOOLEAN :
        LET call == [NoSend EXCEPT
                        !.fn = "send", !.request = r,
                        !.allow_redirects = allow_redirects,
                        !.proxies = proxies, !.headers = headers,
                        !.cookies = cookies, !.timeout = timeout,
                        !.wait_until_finished = wait_until_finished,
                        \* line 751
                        !.request_cookies =
                            dict_or(cookies_of(cookieJar.cookies), cookies),
                        !.before = [headers |-> network.headers,
                                    cookies |-> cookieJar.cookies,
                                    proxy |-> network.proxy,
                                    redirectPolicy |->
                                        network.redirectPolicy]]
            \* lines 750-756
            request_headers ==
                CaseInsensitiveDict_or(network.headers, headers)
            with_cookie ==
                IF cookies # <<>>
                THEN setitem(request_headers, "Cookie", "<request_cookies>")
                ELSE request_headers
            \* line 763
            prepared == prepare_headers(with_cookie, cookies)
            \* lines 765-766
            policy == IF ~allow_redirects THEN "ManualRedirectPolicy"
                      ELSE network.redirectPolicy
            \* lines 768-785
            proxied == IF proxies = <<"None">>
                       THEN [proxy |-> network.proxy, raised |-> NoneS]
                       ELSE set_proxies(network.proxy, proxies)
            \* lines 793-794
            reply == [NoReply EXCEPT
                        !.sent = TRUE,
                        !.timer = timer_of(timeout),
                        !.returned = ~wait_until_finished]
        IN  IF prepared.raised # NoneS
            THEN network' = [network EXCEPT
                                !.call = [call EXCEPT
                                            !.raised = prepared.raised]]
            ELSE IF proxied.raised # NoneS
            THEN network' = [network EXCEPT
                                !.redirectPolicy = policy,
                                !.proxy = proxied.proxy,
                                !.call = [call EXCEPT
                                            !.raised = proxied.raised]]
            ELSE network' =
                    [network EXCEPT
                        !.redirectPolicy = restored(policy),
                        !.proxy = proxied.proxy,
                        !.replies[r] = reply,
                        !.waiting =
                            IF wait_until_finished THEN Append(@, r)
                            ELSE @,
                        !.call = [call EXCEPT
                                    !.dispatched =
                                        [headers |-> prepared.headers,
                                         redirectPolicy |-> policy,
                                         proxy |-> proxied.proxy]]]
    /\ UNCHANGED <<cookieJar, authenticator, session_data, cookie, file,
                   access_token, first_request, models, conversation,
                   conversations, stack, ret, op, hist, lastGet, lastOp>>

\* the event loop delivers the server's answer: the reply finishes
reply_finished ==
    /\ \E i \in Requests :
        /\ network.replies[i].sent
        /\ ~network.replies[i].finished
        /\ network' = [network EXCEPT !.replies[i].finished = TRUE,
                                      !.call = NoSend]
    /\ UNCHANGED <<cookieJar, authenticator, session_data, cookie, file,
                   access_token, first_request, models, conversation,
                   conversations, stack, ret, op, hist, lastGet, lastOp>>

\* handle_connection_timeout (lines 698-700): the event loop delivers the
\* timeout of the watchdog
handle_connection_timeout ==
    /\ \E i \in Requests :
        /\ network.replies[i].timer = "armed"
        /\ network' =
            [network EXCEPT
                !.replies[i] =
                    IF ~network.replies[i].finished
                    THEN [@ EXCEPT !.timer = "fired", !.aborted = TRUE,
                                   !.finished = TRUE]
                    ELSE [@ EXCEPT !.timer = "fired"],
                !.call = [NoSend EXCEPT
                            !.fn = "timeout", !.request = i,
                            !.was_finished = network.replies[i].finished,
                            !.aborted = ~network.replies[i].finished]]
    /\ UNCHANGED <<cookieJar, authenticator, session_data, cookie, file,
                   access_token, first_request, models, conversation,
                   conversations, stack, ret, op, hist, lastGet, lastOp>>

\* wait_for_reply (utils/network.py lines 74-81) ends and send returns: the
\* innermost reply waited for is finished
wait_for_reply ==
    /\ network.waiting # <<>>
    /\ LET i == network.waiting[Len(network.waiting)]
       IN  /\ ~(~network.replies[i].finished)
           /\ network' =
                [network EXCEPT
                    !.waiting = SubSeq(@, 1, Len(@) - 1),
                    !.replies[i].returned = TRUE,
                    !.call = NoSend]
    /\ UNCHANGED <<cookieJar, authenticator, session_data, cookie, file,
                   access_token, first_request, models, conversation,
                   conversations, stack, ret, op, hist, lastGet, lastOp>>

(***************************************************************************)
(* Client.__init__ (lines 46-111).                                         *)
(***************************************************************************)
\* what CG_SESSION_PATH holds when the Client is constructed
InitFiles ==
    {Session_to_json([Session EXCEPT !.session_token = x[1],
                                     !.session_expires = x[2],
                                     !.user = x[3]]) :
        x \in {<<None, NoneS, NoneS>>,
               <<(<<"a">>), NoneS, NoneS>>,
               <<(<<"a">>), "future", "u1">>,
               <<(<<"a">>), "past", "u1">>}}

\* is_file: whether the file exists; decodable: whether json.loads accepts it
Client_init(kwarg, is_file, dump, decodable) ==
    LET loaded ==
            IF kwarg = None /\ is_file
            THEN IF ~decodable
                 THEN [session_data |-> Session, file |-> NoFile]
                 ELSE [session_data |-> Session_from_json(dump),
                       file |-> Written(dump)]
            ELSE [session_data |-> [Session EXCEPT !.session_token = kwarg],
                  file |-> IF is_file THEN Written(dump) ELSE NoFile]
        token == loaded.session_data.session_token
    IN  [session_data |-> loaded.session_data,
         cookie |-> IF Truthy(token) THEN token ELSE None,
         file |-> loaded.file]

Client_constructed ==
    \E kwarg \in InitTokens, is_file \in BOOLEAN, dump \in InitFiles,
       decodable \in BOOLEAN :
        /\ SetStoreInit(Client_init(kwarg, is_file, dump, decodable))
        /\ access_token = None
        /\ first_request = TRUE
        /\ models = NoneS
        /\ conversation = [uuid |-> NoneS, messages |-> <<>>]
        /\ conversations = {}
        /\ stack = <<>>
        /\ ret = RetNone
        /\ op = OpStart
        /\ hist = HistStart(Client_init(kwarg, is_file, dump, decodable))
        /\ lastGet = NoGetRecord
        /\ lastOp = "__init__"
        /\ authenticator = Authenticator

Init ==
    /\ Client_constructed
    /\ cookieJar = NetworkSession
    /\ network = NetworkSession_init

(***************************************************************************)
(* The server's answer to a GET.                                           *)
(***************************************************************************)
BodiesOf(path) ==
    IF path \in {SESSION_PATH, MODELS_PATH} THEN Bodies ELSE {"notjson"}

Responses(path) == [code : Codes, body : BodiesOf(path)]

\* Set-Cookie of the answer: none, or a new session cookie in answer to a
\* request that carried one (the server rotates the session of a client
\* that has one; it does not hand a session to an anonymous client)
SetCookies(st) ==
    IF st.cookie = None THEN {None} ELSE {None} \cup ServerCookies

Received(st, set_cookie) ==
    IF set_cookie = None THEN st ELSE [st EXCEPT !.cookie = set_cookie]

(***************************************************************************)
(* Client._get (lines 247-270).                                            *)
(***************************************************************************)
\* line 266
handles_401(f, r) ==
    r.code = 401 /\ f.update /\ access_token # None

\* a retry that would handle a 401 of its own
retry_frame_handling(f) == Frame("_get", f.path, TRUE)

\* line 268
retry_frame(f) == Frame("_get", f.path, FALSE)

\* a Client that never warms up
bootstraps_never == FALSE

\* line 254
bootstraps == first_request

\* lines 254-256: the first request of the Client warms up with GET chat
get_bootstrap ==
    /\ Running("_get", "start")
    /\ bootstraps
    /\ first_request' = FALSE
    /\ Call([Top EXCEPT !.pc = "warmed", !.boot = TRUE],
            Frame("_get", CHAT_PATH, TRUE))
    /\ lastOp' = "_get:bootstrap"
    /\ UNCHANGED <<network, cookieJar, authenticator, session_data, cookie, file, access_token, models,
                   conversation, conversations, op, hist, lastGet>>

\* a warm-up that goes on to the request without refresh_auth()
get_bootstrap_skip_refresh ==
    /\ Running("_get", "warmed")
    /\ Goto([Top EXCEPT !.pc = "request"])
    /\ lastOp' = "_get:bootstrap_refresh"
    /\ UNCHANGED <<network, cookieJar, authenticator, session_data, cookie, file, access_token, first_request,
                   models, conversation, conversations, op, hist, lastGet>>

\* line 257
get_bootstrap_refresh ==
    /\ Running("_get", "warmed")
    /\ Call([Top EXCEPT !.pc = "request"], Frame("refresh_auth", NoneS, TRUE))
    /\ hist' = [hist EXCEPT !.boot = Append(@, "refresh_auth")]
    /\ lastOp' = "_get:bootstrap_refresh"
    /\ UNCHANGED <<network, cookieJar, authenticator, session_data, cookie, file, access_token, first_request,
                   models, conversation, conversations, op, lastGet>>

\* lines 259-270 up to the call of refresh_auth
get_request ==
    /\ Depth > 0 /\ Top.fn = "_get"
    /\ Top.pc = "request" \/ (Top.pc = "start" /\ ~bootstraps)
    /\ \E r \in Responses(Top.path), set_cookie \in SetCookies(Store) :
        LET st == sync_from_jar(Received(Store, set_cookie))
            f == [Top EXCEPT !.resp = r, !.requests = 1,
                             !.usable = ~refresh_blocked(st.session_data)]
            counted == [op EXCEPT !.gets[f.path] = @ + 1]
        IN  /\ SetStore(st)
            /\ op' = counted
            /\ hist' = [Witnessed(hist, st) EXCEPT
                          !.warmups = IF f.path = CHAT_PATH THEN @ + 1 ELSE @,
                          !.first_get = IF @ = NoneS THEN f.path ELSE @,
                          !.boot = IF f.path = CHAT_PATH THEN Append(@, "warmup")
                                   ELSE IF f.boot THEN Append(@, "request")
                                   ELSE @]
            /\ IF r.code # 0 /\ is_error_status(r.code) /\ handles_401(f, r)
               THEN /\ Depth + 2 <= MaxDepth
                    /\ Call([f EXCEPT !.pc = "refreshing"],
                            Frame("refresh_auth", NoneS, TRUE))
                    /\ lastGet' = lastGet
               ELSE /\ Return(RetResp(r))
                    /\ lastGet' = [GetRecord(f, r) EXCEPT
                                     !.total = counted.gets[f.path] - f.gets0]
    /\ lastOp' = "_get:request"
    /\ UNCHANGED <<network, cookieJar, authenticator, access_token, first_request, models, conversation,
                   conversations>>

\* lines 267-268: refresh_auth() has returned
get_refreshed ==
    /\ Running("_get", "refreshing")
    /\ ret.kind = "value"
    /\ IF ret.val = "True"
       THEN /\ Call([Top EXCEPT !.pc = "retried", !.refreshed = "True",
                                !.retries = @ + 1,
                                !.retry_update = retry_frame(Top).update],
                    retry_frame(Top))
            /\ lastGet' = lastGet
       ELSE /\ Return(RetResp(Top.resp))
            /\ lastGet' = GetRecord([Top EXCEPT !.refreshed = "False"], Top.resp)
    /\ lastOp' = "_get:refreshed"
    /\ UNCHANGED <<network, cookieJar, authenticator, session_data, cookie, file, access_token, first_request,
                   models, conversation, conversations, op, hist>>

\* lines 268-270: the retry has returned, its response is the result
get_retried ==
    /\ Running("_get", "retried")
    /\ ret.kind = "response"
    /\ Return(RetResp(ret.resp))
    /\ lastGet' = GetRecord([Top EXCEPT !.requests = @ + lastGet.requests,
                                        !.retried = lastGet.code],
                            ret.resp)
    /\ lastOp' = "_get:retried"
    /\ UNCHANGED <<network, cookieJar, authenticator, session_data, cookie, file, access_token, first_request,
                   models, conversation, conversations, op, hist>>

(***************************************************************************)
(* Client.refresh_auth (lines 383-420).                                    *)
(***************************************************************************)
\* lines 397-398
deletes_expired(s) == Truthy(s.session_token)

\* the access_token setter (lines 123-128)
access_token_set(value) == strip(decode_url(value))

\* session.headers['Authorization']: written by the access_token setter
\* (line 128) and removed by its deleter only (lines 133-134), which nothing
\* calls
Authorization ==
    IF access_token = None THEN None ELSE <<"Bearer ">> \o access_token

\* lines 390-400: no usable session token
refresh_auth_blocked ==
    /\ Running("refresh_auth", "start")
    /\ refresh_blocked(session_data)
    /\ LET del == deletes_expired(session_data)
           st == IF del THEN session_token_del(Store) ELSE Store
       IN  /\ SetStore(st)
           /\ op' = [op EXCEPT !.authenticationRequired = @ + 1,
                               !.deleted = IF del THEN @ + 1 ELSE @,
                               !.signedOut = IF del THEN @ + 1 ELSE @,
                               !.seen = IF del THEN Seen(st) ELSE @]
           /\ hist' = [hist EXCEPT !.authenticationRequired = TRUE]
    /\ Return(RetVal("False"))
    /\ lastOp' = IF deletes_expired(session_data)
                 THEN "refresh_auth:deleted" ELSE "refresh_auth:blocked"
    /\ UNCHANGED <<network, cookieJar, authenticator, access_token, first_request, models, conversation,
                   conversations, lastGet>>

\* line 402
refresh_auth_request ==
    /\ Running("refresh_auth", "start")
    /\ ~refresh_blocked(session_data)
    /\ Call([Top EXCEPT !.pc = "requested"], Frame("_get", SESSION_PATH, TRUE))
    /\ lastOp' = "refresh_auth:request"
    /\ UNCHANGED <<network, cookieJar, authenticator, session_data, cookie, file, access_token, first_request,
                   models, conversation, conversations, op, hist, lastGet>>

\* lines 404-420: the session endpoint has answered
refresh_auth_update ==
    /\ Running("refresh_auth", "requested")
    /\ ret.kind = "response"
    /\ IF ret.resp.body = "notjson"
       THEN /\ Raise("JSONDecodeError")
            /\ UNCHANGED <<session_data, cookie, file, access_token, hist>>
       ELSE \E token \in AccessTokens :
            LET full == ret.resp.body = "full"
                updated ==
                    IF full
                    THEN [Store EXCEPT !.session_data.user = "u1",
                                       !.session_data.session_expires = "future"]
                    ELSE Store
                st == sync_from_jar(updated)
            IN  /\ SetStore(st)
                /\ access_token' =
                       IF full THEN access_token_set(token) ELSE access_token
                /\ hist' = Witnessed(hist, st)
                /\ Return(RetVal("True"))
    /\ lastOp' = "refresh_auth:update"
    /\ UNCHANGED <<network, cookieJar, authenticator, first_request, models, conversation, conversations, op,
                   lastGet>>

(***************************************************************************)
(* Client.get_models (line 295) and Client.get_image (lines 306-315).      *)
(***************************************************************************)
get_models_request ==
    /\ Running("get_models", "start")
    /\ Call([Top EXCEPT !.pc = "requested"], Frame("_get", MODELS_PATH, TRUE))
    /\ lastOp' = "get_models:request"
    /\ UNCHANGED <<network, cookieJar, authenticator, session_data, cookie, file, access_token, first_request,
                   models, conversation, conversations, op, hist, lastGet>>

get_models_return ==
    /\ Running("get_models", "requested")
    /\ ret.kind = "response"
    /\ IF ret.resp.body = "notjson"
       THEN Raise("JSONDecodeError")
       ELSE Return(RetVal(IF ret.resp.body = "full" THEN "list" ELSE NoneS))
    /\ lastOp' = "get_models:return"
    /\ UNCHANGED <<network, cookieJar, authenticator, session_data, cookie, file, access_token, first_request,
                   models, conversation, conversations, op, hist, lastGet>>

get_image_request ==
    /\ Running("get_image", "start")
    /\ Call([Top EXCEPT !.pc = "requested"], Frame("_get", IMAGE_PATH, TRUE))
    /\ lastOp' = "get_image:request"
    /\ UNCHANGED <<network, cookieJar, authenticator, session_data, cookie, file, access_token, first_request,
                   models, conversation, conversations, op, hist, lastGet>>

get_image_return ==
    /\ Running("get_image", "requested")
    /\ ret.kind = "response"
    /\ IF is_error_status(ret.resp.code)
       THEN Raise("ValueError")
       ELSE Return(RetVal("data"))
    /\ lastOp' = "get_image:return"
    /\ UNCHANGED <<network, cookieJar, authenticator, session_data, cookie, file, access_token, first_request,
                   models, conversation, conversations, op, hist, lastGet>>

(***************************************************************************)
(* Client.send_message (lines 323-374).                                    *)
(***************************************************************************)
ReplyIds == {101, 102}

DataFrame(m, c) == [kind |-> "data", message |-> m, conversation_id |-> c]
DoneFrame == [kind |-> "[DONE]", message |-> 0, conversation_id |-> NoneS]
EmptyFrame == [kind |-> "", message |-> 0, conversation_id |-> NoneS]
HtmlFrame == [kind |-> "html", message |-> 0, conversation_id |-> NoneS]

\* payloads: 'message' present (its id) or missing (0), 'conversation_id'
\* present and valid or not (None)
DataFrames ==
    {DataFrame(m, c) : m \in ReplyIds \cup {0}, c \in ConversationIds \cup {NoneS}}

\* the two newlines between the frames of a text/event-stream
Delimiter == [kind |-> "\n\n", message |-> 0, conversation_id |-> NoneS]

\* response.text: an empty body, an error page, a lone terminator, an error
\* page in a stream, a finished stream of one or two data frames, a stream
\* cut off before its last delimiter
PostBodies ==
    {<<>>, <<HtmlFrame>>, <<DoneFrame, Delimiter>>,
     <<HtmlFrame, Delimiter, DoneFrame, Delimiter>>}
    \cup {<<d, Delimiter, DoneFrame, Delimiter>> : d \in DataFrames}
    \cup {<<d, Delimiter, DoneFrame>> : d \in DataFrames}
    \cup {<<DataFrame(101, NoneS), Delimiter, d, Delimiter, DoneFrame,
            Delimiter>> : d \in DataFrames}

\* str.split('\n\n'): the pieces between the delimiters, empty ones included
RECURSIVE split(_)
split(body) ==
    IF \A i \in 1..Len(body) : body[i] # Delimiter
    THEN <<body>>
    ELSE LET i == CHOOSE k \in 1..Len(body) :
                      /\ body[k] = Delimiter
                      /\ \A j \in 1..(k - 1) : body[j] # Delimiter
         IN  <<SubSeq(body, 1, i - 1)>> \o split(SubSeq(body, i + 1, Len(body)))

\* a piece as the frame it is: the empty string, or what it holds
frame_of(piece) == IF piece = <<>> THEN EmptyFrame ELSE piece[1]

split_frames(body) ==
    LET pieces == split(body)
    IN  [i \in 1..Len(pieces) |-> frame_of(pieces[i])]

\* response.text.split('\n\n') of every body
PostTexts == {split_frames(body) : body \in PostBodies}

Message(uuid, text, role) == [uuid |-> uuid, text |-> text, role |-> role]

Message_from_json(frame) == Message(frame.message, "reply", "assistant")

\* the reply stored ahead of the message it answers
extended_reply_first(c, sent, reply) ==
    [c EXCEPT !.messages = @ \o <<reply>> \o <<sent>>]

\* lines 365-366
extended(c, sent, reply) ==
    [c EXCEPT !.messages = @ \o <<sent>> \o <<reply>>]

\* the id taken from every reply
identified_always(c, conversation_id) == [c EXCEPT !.uuid = conversation_id]

\* lines 368-369
identified(c, conversation_id) ==
    IF c.uuid = NoneS THEN [c EXCEPT !.uuid = conversation_id] ELSE c

\* an Action that always hangs off a new root message
parent_message_rooted(c, fresh) == fresh

\* lines 337-340
parent_message(c, fresh) ==
    IF c.messages # <<>> THEN c.messages[Len(c.messages)].uuid ELSE fresh

\* the frame before the terminator taken for the finished product
last_stream_terminator(text) == text[Len(text) - 1]

\* line 358: index -3 of the split body
last_stream_of(text) == text[Len(text) - 2]

\* a send_message that tells nobody
received_unannounced(o, reply, c) == o

\* line 374: receivedMessage.emit(response_message, conversation)
received(o, reply, c) ==
    [o EXCEPT !.receivedMessage = @ + 1,
              !.emitted = [reply |-> reply.uuid, messages |-> c.messages]]

\* lines 332-333
send_message_get_models ==
    /\ Running("send_message", "start")
    /\ models = NoneS
    /\ Call([Top EXCEPT !.pc = "models"], Frame("get_models", NoneS, TRUE))
    /\ lastOp' = "send_message:get_models"
    /\ UNCHANGED <<network, cookieJar, authenticator, session_data, cookie, file, access_token, first_request,
                   models, conversation, conversations, op, hist, lastGet>>

\* line 334
send_message_no_models ==
    /\ Running("send_message", "models")
    /\ ret.kind = "value" /\ ret.val = NoneS
    /\ Raise("ValueError")
    /\ lastOp' = "send_message:no_models"
    /\ UNCHANGED <<network, cookieJar, authenticator, session_data, cookie, file, access_token, first_request,
                   models, conversation, conversations, op, hist, lastGet>>

\* lines 335-351: the Action is built and POSTed
send_message_post ==
    /\ \/ Running("send_message", "start") /\ models # NoneS
       \/ Running("send_message", "models") /\ ret.kind = "value" /\ ret.val # NoneS
    /\ models' = "list"
    /\ LET rooted == conversation.messages = <<>>
           root == hist.uuids + 1
           uuid == IF rooted THEN hist.uuids + 2 ELSE hist.uuids + 1
           action == [parent |-> parent_message(conversation, root),
                      message |-> uuid,
                      conversation_id |-> conversation.uuid,
                      messages |-> Len(conversation.messages)]
       IN  /\ Goto([Top EXCEPT !.pc = "posted", !.action = action])
           /\ hist' = [hist EXCEPT !.uuids = uuid, !.posted = TRUE]
    /\ op' = [op EXCEPT !.posts = @ + 1]
    /\ lastOp' = "send_message:post"
    /\ UNCHANGED <<network, cookieJar, authenticator, session_data, cookie, file, access_token, first_request,
                   conversation, conversations, lastGet>>

\* lines 353-374: the reply has finished
send_message_reply ==
    /\ Running("send_message", "posted")
    /\ \E text \in PostTexts :
        LET n == Len(text)
            last_stream == last_stream_of(text)
            read == [op EXCEPT !.text = text]
            sent == Message(Top.action.message, "text", "user")
            reply == Message_from_json(last_stream)
            appended == extended(conversation, sent, reply)
            named == identified(appended, last_stream.conversation_id)
        IN  IF n < 3
            THEN /\ Raise("ValueError")
                 /\ op' = read
                 /\ UNCHANGED <<conversation, conversations, hist>>
            ELSE IF last_stream.kind # "data"
            THEN /\ Raise("JSONDecodeError")
                 /\ op' = read
                 /\ UNCHANGED <<conversation, conversations, hist>>
            ELSE IF last_stream.message = 0
            THEN /\ Raise("KeyError")
                 /\ op' = read
                 /\ UNCHANGED <<conversation, conversations, hist>>
            ELSE IF appended.uuid = NoneS /\ last_stream.conversation_id = NoneS
            THEN /\ Raise("KeyError")
                 /\ conversation' = appended
                 /\ op' = read
                 /\ UNCHANGED <<conversations, hist>>
            ELSE /\ conversation' = named
                 /\ conversations' = conversations \cup {named.uuid}
                 /\ op' = received(read, reply, named)
                 /\ hist' = [hist EXCEPT
                               !.sent = Append(@, <<sent, reply>>),
                               !.replied = last_stream.conversation_id]
                 /\ Return(RetVal(NoneS))
    /\ lastOp' = "send_message:reply"
    /\ UNCHANGED <<network, cookieJar, authenticator, session_data, cookie, file, access_token, first_request,
                   models, lastGet>>

(***************************************************************************)
(* Calls made on the Client from outside, while no call is running.        *)
(***************************************************************************)
Idle == stack = <<>>

Enter(fn) ==
    /\ Idle
    /\ stack' = <<Frame(fn, NoneS, TRUE)>>
    /\ ret' = RetNone
    /\ op' = OpStart
    /\ lastGet' = NoGetRecord

call_get_models ==
    /\ Enter("get_models")
    /\ lastOp' = "get_models"
    /\ UNCHANGED <<network, cookieJar, authenticator, session_data, cookie, file, access_token, first_request,
                   models, conversation, conversations, hist>>

call_get_image ==
    /\ Enter("get_image")
    /\ lastOp' = "get_image"
    /\ UNCHANGED <<network, cookieJar, authenticator, session_data, cookie, file, access_token, first_request,
                   models, conversation, conversations, hist>>

call_refresh_auth ==
    /\ Enter("refresh_auth")
    /\ lastOp' = "refresh_auth"
    /\ UNCHANGED <<network, cookieJar, authenticator, session_data, cookie, file, access_token, first_request,
                   models, conversation, conversations, hist>>

call_send_message ==
    /\ hist.sends < MaxSends
    /\ Enter("send_message")
    /\ hist' = [hist EXCEPT !.sends = @ + 1]
    /\ lastOp' = "send_message"
    /\ UNCHANGED <<network, cookieJar, authenticator, session_data, cookie, file, access_token, first_request,
                   models, conversation, conversations>>

\* session_token setter (lines 219-225)
set_session_token ==
    /\ Idle
    /\ \E value \in SetterValues :
        LET st == session_token_set(Store, value)
        IN  SetStore(st) /\ hist' = Witnessed(hist, st)
    /\ op' = OpStart
    /\ ret' = RetNone
    /\ lastGet' = NoGetRecord
    /\ lastOp' = "session_token.setter"
    /\ UNCHANGED <<network, cookieJar, authenticator, access_token, first_request, models, conversation,
                   conversations, stack>>

\* session_token deleter (lines 227-234)
del_session_token ==
    /\ Idle
    /\ LET st == session_token_del(Store)
       IN  /\ SetStore(st)
           /\ op' = [OpStart EXCEPT !.deleted = 1, !.signedOut = 1,
                                    !.seen = Seen(st)]
    /\ hist' = hist
    /\ ret' = RetNone
    /\ lastGet' = NoGetRecord
    /\ lastOp' = "session_token.deleter"
    /\ UNCHANGED <<network, cookieJar, authenticator, access_token, first_request, models, conversation,
                   conversations, stack>>

(***************************************************************************)
(* Client.sign_in and Client.new_session (lines 422-440) around            *)
(* Authenticator.authenticate (auth.py lines 76-321).  The Authenticator   *)
(* works on the Client's own Session object (line 430).                    *)
(***************************************************************************)
\* cloudflare_clearance (auth.py 323-391) with Client._cf_auth_updated and
\* Client._user_agent_updated saving the session, in the run in which the
\* browser delivered both cookies and the user agent (SpecAuth has the others)
cloudflare_clearance(st) ==
    save_session_data(
        [st EXCEPT !.session_data.cf_bm = "bm",
                   !.session_data.cf_clearance = "clearance",
                   !.session_data.cf_expires = "future",
                   !.session_data.user_agent = "ua"])

\* auth.py lines 116-117
cleared(st) ==
    IF Session_is_valid_clearance(st.session_data)
    THEN st ELSE cloudflare_clearance(st)

\* auth.py lines 296-301
authenticated(st, token) ==
    [st EXCEPT !.session_data.user = "u1",
               !.session_data.cf_bm = "bm",
               !.session_data.cf_clearance = "clearance",
               !.session_data.cf_expires = "future",
               !.session_data.session_expires = "future",
               !.session_data.session_token = token]

sign_in ==
    /\ Idle
    /\ op' = OpStart
    /\ \E outcome \in {"no credentials", "failed", "successful"},
          token \in AuthTokens :
        LET st == IF outcome = "no credentials" THEN Store
                  ELSE IF outcome = "failed" THEN cleared(Store)
                  ELSE authenticated(cleared(Store), token)
        IN  /\ SetStore(st)
            /\ hist' = Witnessed(hist, st)
            /\ IF outcome = "successful"
               THEN /\ stack' = <<[Frame("new_session", NoneS, TRUE)
                                      EXCEPT !.pc = "refreshing"],
                                  Frame("refresh_auth", NoneS, TRUE)>>
                    /\ ret' = RetNone
               ELSE /\ stack' = <<>>
                    /\ ret' = RetVal(NoneS)
    /\ lastGet' = NoGetRecord
    /\ lastOp' = "sign_in"
    /\ UNCHANGED <<network, cookieJar, authenticator, access_token, first_request, models, conversation,
                   conversations>>

\* line 440: refresh_auth() has returned
new_session_return ==
    /\ Running("new_session", "refreshing")
    /\ ret.kind = "value"
    /\ Return(RetVal(NoneS))
    /\ lastOp' = "new_session:return"
    /\ UNCHANGED <<network, cookieJar, authenticator, session_data, cookie, file, access_token, first_request,
                   models, conversation, conversations, op, hist, lastGet>>

(***************************************************************************)
(* Authenticator.authenticate step by step (auth.py lines 76-321), with    *)
(* cloudflare_clearance (323-391) and handle_captcha (393-406).  Each      *)
(* request of the handshake is one step; the server's answer is chosen     *)
(* with \E.  The events of the browser and the texts of the captcha        *)
(* dialog arrive while the Authenticator runs QCoreApplication             *)
(* .processEvents().                                                       *)
(***************************************************************************)
Usernames == {"", "user"}
Passwords == {"", "pw"}
CaptchaTexts == {"1234", "5678"}
CookieNames == {"__cf_bm", "cf_clearance"}

TruthyS(x) == x # NoneS /\ x # ""

\* the steps of _authenticate in the order of the source
HandshakeOrder ==
    <<"credentials", "clearance", "csrf", "signin", "redirect", "login_page",
      "username", "password", "resume", "session">>

Position(step) == CHOOSE i \in 1..Len(HandshakeOrder) : HandshakeOrder[i] = step

next_step_over_password(step) ==
    IF step = "username" THEN "resume" ELSE HandshakeOrder[Position(step) + 1]

\* the statement that follows a step that succeeded
next_step(step) == HandshakeOrder[Position(step) + 1]

requested(o, step) == [o EXCEPT !.requests = Append(@, step)]

failed_unreported(o, e) == o

\* line 321: authenticationFailed.emit(self.username, e)
failed(o, e) ==
    [o EXCEPT !.authenticationFailed = @ + 1, !.reported = e]

\* a step raises e; lines 318-321: the exception is caught and reported,
\* authenticate returns
AuthFail(o, e) ==
    /\ Return(RetVal(NoneS))
    /\ op' = failed([o EXCEPT !.error = e], e)

\* the step succeeded, _authenticate goes on
AuthNext(o, step) ==
    /\ Goto([Top EXCEPT !.pc = next_step(step)])
    /\ op' = o

\* Client.sign_in (chatgpt.py lines 422-431) up to the call of authenticate
call_sign_in ==
    /\ Idle
    /\ hist.sign_ins < MaxSignIns
    /\ \E username \in Usernames, password \in Passwords :
        authenticator' =
            [authenticator EXCEPT !.username = username,
                                  !.password = password,
                                  !.clearance_obtained = FALSE,
                                  !.listens_user_agent = FALSE,
                                  !.captcha = NoneS,
                                  !.connected = FALSE,
                                  !.holder = <<>>]
    /\ stack' = <<[Frame("authenticate", NoneS, TRUE)
                      EXCEPT !.pc = "credentials"]>>
    /\ ret' = RetNone
    /\ op' = [OpStart EXCEPT !.token0 = session_data.session_token]
    /\ hist' = [hist EXCEPT !.sign_ins = @ + 1]
    /\ lastGet' = NoGetRecord
    /\ lastOp' = "sign_in:call"
    /\ UNCHANGED <<network, cookieJar, session_data, cookie, file, access_token, first_request,
                   models, conversation, conversations>>

\* lines 94-95
auth_credentials ==
    /\ Running("authenticate", "credentials")
    /\ LET o == requested(op, "credentials")
       IN  IF TruthyS(authenticator.username) /\ TruthyS(authenticator.password)
           THEN AuthNext(o, "credentials")
           ELSE AuthFail(o, "ValueError")
    /\ lastOp' = "authenticate:credentials"
    /\ UNCHANGED <<network, cookieJar, authenticator, session_data, cookie, file, access_token,
                   first_request, models, conversation, conversations, hist,
                   lastGet>>

\* lines 116-117, and 323-385 of cloudflare_clearance: Chrome starts or not,
\* the listeners are added
auth_clearance ==
    /\ Running("authenticate", "clearance")
    /\ LET o == requested(op, "clearance")
       IN  IF Session_is_valid_clearance(session_data)
           THEN /\ AuthNext(o, "clearance")
                /\ UNCHANGED authenticator
           ELSE \E started \in BOOLEAN :
                    IF started
                    THEN /\ Call([Top EXCEPT !.pc = next_step("clearance")],
                                 [Frame("cloudflare_clearance", NoneS, TRUE)
                                     EXCEPT !.pc = "events"])
                         /\ op' = o
                         /\ authenticator' =
                                [authenticator EXCEPT
                                    !.clearance_obtained = FALSE,
                                    !.listens_user_agent =
                                        ~TruthyS(session_data.user_agent)]
                    ELSE /\ AuthFail(o, "RuntimeError")
                         /\ UNCHANGED authenticator
    /\ lastOp' = "authenticate:clearance"
    /\ UNCHANGED <<network, cookieJar, session_data, cookie, file, access_token, first_request,
                   models, conversation, conversations, hist, lastGet>>

\* a Set-Cookie header: the cookies it lists; the value of a cookie is the
\* text between its last '=' and its ';'
SetCookie(name, value) == [name |-> name, value |-> value]

SetCookieHeaders ==
    {<<>>}
    \cup {<<SetCookie(n, v)>> : n \in CookieNames \cup {"other"}, v \in {"", "v1"}}
    \cup {<<SetCookie("other", "v1"), SetCookie("cf_clearance", "v1")>>,
          <<SetCookie("__cf_bm", "v1"), SetCookie("cf_clearance", "v1")>>}

\* lines 342-346: pattern.match looks for the cookie at the start of the header
cookie_values(header) ==
    {n \in CookieNames :
        header # <<>> /\ header[1].name = n /\ header[1].value # ""}

\* lines 330-360 (set_cookies) with Client._cf_auth_updated (chatgpt.py 236-241)
set_cookies(a, st, header) ==
    LET names == cookie_values(header)
        value == header[1].value
        data  == [st.session_data EXCEPT
                    !.cf_bm = IF "__cf_bm" \in names THEN value ELSE @,
                    !.cf_clearance =
                        IF "cf_clearance" \in names THEN value ELSE @,
                    !.cf_expires =
                        IF "cf_clearance" \in names THEN "future" ELSE @]
    IN  IF names = {}
        THEN [authenticator |-> a, store |-> st]
        ELSE [authenticator |->
                [a EXCEPT !.cf_bm = IF "__cf_bm" \in names THEN value ELSE @,
                          !.cf_clearance =
                              IF "cf_clearance" \in names THEN value ELSE @,
                          !.clearance_obtained = TRUE],
              store |-> save_session_data([st EXCEPT !.session_data = data])]

\* Network.responseReceivedExtraInfo while the loop of lines 387-388 runs
cf_response ==
    /\ Running("cloudflare_clearance", "events")
    /\ \E header \in SetCookieHeaders :
        LET after == set_cookies(authenticator, Store, header)
        IN  /\ authenticator' = after.authenticator
            /\ SetStore(after.store)
    /\ lastOp' = "cloudflare_clearance:response"
    /\ UNCHANGED <<network, cookieJar, access_token, first_request, models, conversation,
                   conversations, stack, ret, op, hist, lastGet>>

\* Network.requestWillBeSentExtraInfo (set_user_agent, lines 362-365) with
\* Client._user_agent_updated (chatgpt.py 243-245)
cf_request ==
    /\ Running("cloudflare_clearance", "events")
    /\ authenticator.listens_user_agent
    /\ \E ua \in {NoneS, "", "ua"} :
        LET st == [Store EXCEPT !.session_data.user_agent = ua]
        IN  SetStore(IF TruthyS(ua) THEN save_session_data(st) ELSE st)
    /\ lastOp' = "cloudflare_clearance:request"
    /\ UNCHANGED <<network, cookieJar, authenticator, access_token, first_request, models,
                   conversation, conversations, stack, ret, op, hist, lastGet>>

\* lines 387-391: the loop ends, the browser is closed
cf_return ==
    /\ Running("cloudflare_clearance", "events")
    /\ ~(~TruthyS(session_data.user_agent) \/ ~authenticator.clearance_obtained)
    /\ Return(RetVal(NoneS))
    /\ lastOp' = "cloudflare_clearance:return"
    /\ UNCHANGED <<network, cookieJar, authenticator, session_data, cookie, file, access_token,
                   first_request, models, conversation, conversations, op,
                   hist, lastGet>>

\* a request of the handshake whose answer either lets it go on or raises
AuthRequest(step, error) ==
    /\ Running("authenticate", step)
    /\ \E expected \in BOOLEAN :
        LET o == requested(op, step)
        IN  IF expected THEN AuthNext(o, step) ELSE AuthFail(o, error)

\* lines 123-134
auth_csrf ==
    /\ AuthRequest("csrf", "ValueError")
    /\ lastOp' = "authenticate:csrf"
    /\ UNCHANGED <<network, cookieJar, authenticator, session_data, cookie, file, access_token,
                   first_request, models, conversation, conversations, hist,
                   lastGet>>

\* lines 141-159
auth_signin ==
    /\ AuthRequest("signin", "RuntimeError")
    /\ lastOp' = "authenticate:signin"
    /\ UNCHANGED <<network, cookieJar, authenticator, session_data, cookie, file, access_token,
                   first_request, models, conversation, conversations, hist,
                   lastGet>>

\* lines 165-180
auth_redirect ==
    /\ AuthRequest("redirect", "RuntimeError")
    /\ lastOp' = "authenticate:redirect"
    /\ UNCHANGED <<network, cookieJar, authenticator, session_data, cookie, file, access_token,
                   first_request, models, conversation, conversations, hist,
                   lastGet>>

\* what the login page can be: refused, without a captcha, with a captcha
\* image, with a captcha image whose data cannot be rendered
LoginPages == {"refused", "plain", "captcha", "unrendered captcha"}

\* lines 187-211, with handle_captcha up to its loop (396-399)
auth_login_page ==
    /\ Running("authenticate", "login_page")
    /\ \E page \in LoginPages :
        LET o == [requested(op, "login_page") EXCEPT !.page = page]
        IN  CASE page = "refused" ->
                    /\ AuthFail(o, "RuntimeError")
                    /\ UNCHANGED authenticator
              [] page = "unrendered captcha" ->
                    /\ AuthFail(o, "RuntimeError")
                    /\ UNCHANGED authenticator
              [] page = "plain" ->
                    /\ AuthNext(o, "login_page")
                    /\ authenticator' = [authenticator EXCEPT !.captcha = NoneS]
              [] page = "captcha" ->
                    /\ Goto([Top EXCEPT !.pc = "handle_captcha"])
                    /\ op' = [o EXCEPT !.captchaEncountered = @ + 1]
                    /\ authenticator' =
                            [authenticator EXCEPT !.connected = TRUE,
                                                  !.holder = <<>>]
    /\ lastOp' = "authenticate:login_page"
    /\ UNCHANGED <<network, cookieJar, session_data, cookie, file, access_token, first_request,
                   models, conversation, conversations, hist, lastGet>>

\* the captcha dialog emits solveCaptcha(text) (captcha_dialog.py line 73)
\* while the Authenticator processes events; holder.append is its only slot
solve_captcha ==
    /\ \/ Running("cloudflare_clearance", "events")
       \/ Running("authenticate", "handle_captcha")
    /\ \E text \in CaptchaTexts :
        IF authenticator.connected
        THEN /\ Len(authenticator.holder) < 2
             /\ authenticator' =
                    [authenticator EXCEPT !.holder = Append(@, text)]
             /\ op' = [op EXCEPT !.solved = Append(@, text)]
        ELSE /\ ~op.early
             /\ op' = [op EXCEPT !.early = TRUE]
             /\ UNCHANGED authenticator
    /\ lastOp' = "solveCaptcha"
    /\ UNCHANGED <<network, cookieJar, session_data, cookie, file, access_token, first_request,
                   models, conversation, conversations, stack, ret, hist,
                   lastGet>>

first_or_last_text(holder) == holder[Len(holder)]

\* line 406: return holder[0]
first_text(holder) == holder[1]

\* lines 401-406 and 211: the loop of handle_captcha ends
auth_captcha_solved ==
    /\ Running("authenticate", "handle_captcha")
    /\ ~(authenticator.holder = <<>>)
    /\ authenticator' =
            [authenticator EXCEPT !.connected = FALSE,
                                  !.captcha = first_text(authenticator.holder)]
    /\ AuthNext(op, "login_page")
    /\ lastOp' = "authenticate:captcha"
    /\ UNCHANGED <<network, cookieJar, session_data, cookie, file, access_token, first_request,
                   models, conversation, conversations, hist, lastGet>>

\* lines 218-225: the captcha field of the username form
payload(captcha) == IF captcha # NoneS THEN captcha ELSE "absent"

\* lines 218-237
auth_username ==
    /\ Running("authenticate", "username")
    /\ \E expected \in BOOLEAN :
        LET o == [requested(op, "username") EXCEPT
                    !.payload = payload(authenticator.captcha)]
        IN  IF expected
            THEN AuthNext(o, "username")
            ELSE AuthFail(o, "RuntimeError")
    /\ lastOp' = "authenticate:username"
    /\ UNCHANGED <<network, cookieJar, authenticator, session_data, cookie, file, access_token,
                   first_request, models, conversation, conversations, hist,
                   lastGet>>

\* lines 244-262
auth_password ==
    /\ AuthRequest("password", "RuntimeError")
    /\ lastOp' = "authenticate:password"
    /\ UNCHANGED <<network, cookieJar, authenticator, session_data, cookie, file, access_token,
                   first_request, models, conversation, conversations, hist,
                   lastGet>>

\* lines 269-282: the resume request, whose answer sets the session cookie of
\* the Authenticator's jar or not
auth_resume ==
    /\ Running("authenticate", "resume")
    /\ \E expected \in BOOLEAN, set_cookie \in {None} \cup AuthTokens :
        LET o   == requested(op, "resume")
            jar == IF set_cookie = None THEN authenticator.session_token
                   ELSE set_cookie
        IN  /\ authenticator' = [authenticator EXCEPT !.session_token = jar]
            /\ IF ~expected THEN AuthFail(o, "RuntimeError")
               ELSE IF ~Truthy(jar) THEN AuthFail(o, "ValueError")
               ELSE AuthNext(o, "resume")
    /\ lastOp' = "authenticate:resume"
    /\ UNCHANGED <<network, cookieJar, session_data, cookie, file, access_token, first_request,
                   models, conversation, conversations, hist, lastGet>>

\* what the session endpoint can answer: the session, a body that is no
\* JSON, a session without its user, a session whose expiry does not parse
SessionReplies == {"session", "notjson", "no user", "no expiry"}

written_token_first(s, a) ==
    [s EXCEPT !.session_token = a.session_token]

\* lines 296-299: the fields written before the expiry is parsed
written_before_expiry(s, a) ==
    [s EXCEPT !.user = "u1",
              !.cf_bm = a.cf_bm,
              !.cf_clearance = a.cf_clearance,
              !.cf_expires = "future"]

\* lines 300-301
written_last(s, a) ==
    [s EXCEPT !.session_expires = "future",
              !.session_token = a.session_token]

\* lines 288-303: the session is verified and written; authenticationSuccessful
\* is emitted and its slot Client.new_session (chatgpt.py 433-440) starts
auth_session ==
    /\ Running("authenticate", "session")
    /\ \E reply \in SessionReplies :
        LET o == requested(op, "session")
        IN  CASE reply = "notjson" ->
                    /\ AuthFail(o, "JSONDecodeError")
                    /\ UNCHANGED session_data
              [] reply = "no user" ->
                    /\ AuthFail(o, "KeyError")
                    /\ UNCHANGED session_data
              [] reply = "no expiry" ->
                    /\ AuthFail(o, "ValueError")
                    /\ session_data' =
                            written_before_expiry(session_data, authenticator)
              [] reply = "session" ->
                    /\ Depth + 2 <= MaxDepth
                    /\ stack' = SubSeq(stack, 1, Depth - 1) \o
                            <<[Top EXCEPT !.pc = "emitted"],
                              [Frame("new_session", NoneS, TRUE)
                                  EXCEPT !.pc = "refreshing"],
                              Frame("refresh_auth", NoneS, TRUE)>>
                    /\ ret' = RetNone
                    /\ op' = [o EXCEPT !.authenticationSuccessful = @ + 1]
                    /\ session_data' =
                            written_last(
                                written_before_expiry(session_data,
                                                      authenticator),
                                authenticator)
    /\ hist' = [hist EXCEPT !.had_token =
                    @ \/ Truthy(session_data'.session_token)]
    /\ lastOp' = "authenticate:session"
    /\ UNCHANGED <<network, cookieJar, authenticator, cookie, file, access_token, first_request,
                   models, conversation, conversations, lastGet>>

\* line 303 has returned: the slot ended, by itself or with an exception that
\* Qt printed; _authenticate and authenticate return
auth_return ==
    /\ Running("authenticate", "emitted")
    /\ ret.kind \in {"value", "printed"}
    /\ Return(RetVal(NoneS))
    /\ lastOp' = "authenticate:return"
    /\ UNCHANGED <<network, cookieJar, authenticator, session_data, cookie, file, access_token,
                   first_request, models, conversation, conversations, op,
                   hist, lastGet>>

\* the steps of Authenticator.authenticate
Authenticate_call ==
    \/ auth_credentials
    \/ auth_clearance
    \/ cf_response
    \/ cf_request
    \/ cf_return
    \/ auth_csrf
    \/ auth_signin
    \/ auth_redirect
    \/ auth_login_page
    \/ solve_captcha
    \/ auth_captcha_solved
    \/ auth_username
    \/ auth_password
    \/ auth_resume
    \/ auth_session
    \/ auth_return

(***************************************************************************)
(* The wall clock passes the expiry date of the session.                   *)
(***************************************************************************)
clock ==
    /\ session_data.session_expires = "future"
    /\ session_data' = [session_data EXCEPT !.session_expires = "past"]
    /\ lastOp' = "clock"
    /\ UNCHANGED <<network, cookieJar, authenticator, cookie, file, access_token, first_request, models,
                   conversation, conversations, stack, ret, op, hist, lastGet>>

\* the steps of _get and refresh_auth
Refresh_call ==
    \/ get_bootstrap
    \/ get_bootstrap_refresh
    \/ get_request
    \/ get_refreshed
    \/ get_retried
    \/ refresh_auth_blocked
    \/ refresh_auth_request
    \/ refresh_auth_update

(***************************************************************************)
(* SpecRefresh: a caller runs refresh_auth() twice in a row, against a     *)
(* server that answers the session endpoint the same way every time.       *)
(***************************************************************************)
\* the answer of the session endpoint: 200 with user, accessToken, expires
\* and the session cookie
SameAnswer == [code |-> 200, body |-> "full"]

\* _get against that server
get_request_same ==
    /\ get_request
    /\ Top.path = SESSION_PATH
        => /\ ret' = RetResp(SameAnswer)
           /\ \E c \in ServerCookies : cookie' = decode_url(c)

\* the frame of the caller; usable: the session token was set and not
\* expired at the first call; first: what the first call returned and left
TwiceFrame(pc, usable, first) ==
    [fn |-> "refresh_twice", pc |-> pc, usable |-> usable, first |-> first]

\* user, tokens, session cookie and session file of the Client
Outcome(r) == [ret |-> r, store |-> Store, access_token |-> access_token]

\* the caller starts on a Client that has a session token
call_refresh_twice ==
    /\ Idle
    /\ lastOp \in {"__init__", "session_token.setter"}
    /\ Truthy(session_data.session_token)
    /\ stack' = <<TwiceFrame("first", ~refresh_blocked(session_data), NoneS),
                  Frame("refresh_auth", NoneS, TRUE)>>
    /\ ret' = RetNone
    /\ op' = OpStart
    /\ lastGet' = NoGetRecord
    /\ lastOp' = "refresh_auth"
    /\ UNCHANGED <<network, cookieJar, authenticator, session_data, cookie,
                   file, access_token, first_request, models, conversation,
                   conversations, hist>>

\* the first call has returned, the caller calls again at once
refresh_twice_again ==
    /\ Running("refresh_twice", "first")
    /\ ret.kind = "value"
    /\ Call(TwiceFrame("second", Top.usable, Outcome(ret.val)),
            Frame("refresh_auth", NoneS, TRUE))
    /\ lastOp' = "refresh_auth"
    /\ UNCHANGED <<network, cookieJar, authenticator, session_data, cookie,
                   file, access_token, first_request, models, conversation,
                   conversations, op, hist, lastGet>>

\* the second call has returned
refresh_twice_return ==
    /\ Running("refresh_twice", "second")
    /\ ret.kind = "value"
    /\ Return(RetVal(ret.val))
    /\ lastOp' = "refresh_twice"
    /\ UNCHANGED <<network, cookieJar, authenticator, session_data, cookie,
                   file, access_token, first_request, models, conversation,
                   conversations, op, hist, lastGet>>

NextRefresh ==
    \/ set_session_token
    \/ call_refresh_twice
    \/ refresh_twice_again
    \/ refresh_twice_return
    \/ get_bootstrap
    \/ get_bootstrap_refresh
    \/ get_request_same
    \/ refresh_auth_blocked
    \/ refresh_auth_request
    \/ refresh_auth_update

SpecRefresh == Init /\ [][NextRefresh]_vars

\* the steps of _get, refresh_auth and get_models
Running_call ==
    \/ Refresh_call
    \/ get_models_request
    \/ get_models_return

(***************************************************************************)
(* Spec: the token lifecycle.  Every call that reaches _get is made from   *)
(* outside in any order, with the setter, the deleter, sign-in and the     *)
(* clock in between.                                                       *)
(***************************************************************************)
Next ==
    \/ call_get_models
    \/ call_get_image
    \/ call_refresh_auth
    \/ set_session_token
    \/ del_session_token
    \/ sign_in
    \/ new_session_return
    \/ get_image_request
    \/ get_image_return
    \/ clock
    \/ Running_call

Spec == Init /\ [][Next]_vars

(***************************************************************************)
(* SpecChat: a Client, constructed in any way, on which send_message is    *)
(* called up to MaxSends times for one Conversation.                       *)
(***************************************************************************)
NextChat ==
    \/ call_send_message
    \/ send_message_get_models
    \/ send_message_no_models
    \/ send_message_post
    \/ send_message_reply
    \/ Running_call

SpecChat == Init /\ [][NextChat]_vars

(***************************************************************************)
(* SpecView: the ConversationView of a Conversation that is new or was     *)
(* loaded from a file.  send_message waits for its reply in wait_for_reply *)
(* (utils/network.py lines 80-81), which processes events: the Return key  *)
(* in the input line runs ConversationView.send_message again, the send    *)
(* button alone being disabled (conversation_view.py lines 126-137).       *)
(***************************************************************************)
\* a Conversation read by Conversation.from_json: its id and two messages
LoadedConversation ==
    [uuid |-> "k1",
     messages |-> <<Message(90, "text", "user"),
                    Message(91, "reply", "assistant")>>]

InitView ==
    /\ Client_constructed
    /\ cookieJar = NetworkSession
    /\ network = NetworkSession_init

\* the conversation menu loads a Conversation into the view
load_conversation ==
    /\ Idle
    /\ lastOp = "__init__"
    /\ conversation' = LoadedConversation
    /\ lastOp' = "load_conversation"
    /\ UNCHANGED <<network, cookieJar, authenticator, session_data, cookie,
                   file, access_token, first_request, models, conversations,
                   stack, ret, op, hist, lastGet>>

\* returnPressed of the input line while a send_message waits for its
\* reply: the slot calls Client.send_message for the same Conversation
returnPressed ==
    /\ Running("send_message", "posted")
    /\ hist.sends < MaxSends
    /\ Depth + 2 <= MaxDepth
    /\ stack' = stack \o
                <<[Frame("ConversationView.send_message", NoneS, TRUE)
                    EXCEPT !.pc = "sending"],
                  Frame("send_message", NoneS, TRUE)>>
    /\ ret' = RetNone
    /\ hist' = [hist EXCEPT !.sends = @ + 1]
    /\ lastOp' = "returnPressed"
    /\ UNCHANGED <<network, cookieJar, authenticator, session_data, cookie,
                   file, access_token, first_request, models, conversation,
                   conversations, op, lastGet>>

\* Client.send_message has returned to the slot
view_send_return ==
    /\ Running("ConversationView.send_message", "sending")
    /\ ret.kind = "value"
    /\ Return(RetNone)
    /\ lastOp' = "ConversationView.send_message:return"
    /\ UNCHANGED <<network, cookieJar, authenticator, session_data, cookie,
                   file, access_token, first_request, models, conversation,
                   conversations, op, hist, lastGet>>

NextView ==
    \/ load_conversation
    \/ returnPressed
    \/ view_send_return
    \/ call_send_message
    \/ send_message_get_models
    \/ send_message_no_models
    \/ send_message_post
    \/ send_message_reply
    \/ Running_call

SpecView == InitView /\ [][NextView]_vars

(***************************************************************************)
(* SpecAuth: sign-in with the handshake of the Authenticator step by step  *)
(* and the session refresh that follows a successful one.  The session    *)
(* written by a sign-in does not expire while the refresh runs, so the    *)
(* refresh is never refused.                                               *)
(***************************************************************************)
NextAuth ==
    \/ call_sign_in
    \/ Authenticate_call
    \/ new_session_return
    \/ get_bootstrap
    \/ get_bootstrap_refresh
    \/ get_request
    \/ get_refreshed
    \/ get_retried
    \/ refresh_auth_request
    \/ refresh_auth_update

SpecAuth == Init /\ [][NextAuth]_vars

(***************************************************************************)
(* SpecJar: the cookie jar of a NetworkSession, on which set_cookie and    *)
(* clear_cookies are called in any order with any arguments.               *)
(***************************************************************************)
NextJar ==
    \/ NetworkSession_set_cookie
    \/ clear_cookies

\* the NetworkSession of a Client constructed without a token and a file
InitJar == Init /\ session_data = Session /\ ~file.exists

\* a NetworkSession on which headers were set and cookies stored
SessionHeaders ==
    setitem(setitem(CaseInsensitiveDict, "Accept", "v1"), "X-FOO", "v1")

SessionJar ==
    {QNetworkCookie("n1", "v1", "d1", "/"),
     QNetworkCookie("n2", "v2", "d1", "/")}

InitNet ==
    /\ Client_constructed
    /\ session_data = Session /\ ~file.exists
    /\ \E configured \in BOOLEAN :
            IF configured
            THEN /\ cookieJar = [NetworkSession EXCEPT !.cookies = SessionJar]
                 /\ network = [NetworkSession_init EXCEPT
                                    !.headers = SessionHeaders]
            ELSE /\ cookieJar = NetworkSession
                 /\ network = NetworkSession_init

SpecJar == InitJar /\ [][NextJar]_vars

(***************************************************************************)
(* SpecHeaders: the default headers of a NetworkSession, set and deleted   *)
(* in any order under any casing.                                          *)
(***************************************************************************)
NextHeaders ==
    \/ headers_set
    \/ headers_del

SpecHeaders == InitJar /\ [][NextHeaders]_vars

(***************************************************************************)
(* SpecSession: a Session with any of its fields set or None is dumped     *)
(* with to_json, cleared, and loaded again with from_json.                 *)
(***************************************************************************)
\* the Sessions: user, cookies of cloudflare, timestamps, token, user agent
Sessions ==
    [user : {NoneS, "u1"}, cf_bm : {NoneS, "bm"},
     cf_unique_visitor_id : {NoneS, "uv"}, cf_clearance : {NoneS, "cl"},
     cf_expires : {NoneS} \cup DateTimes,
     session_expires : {NoneS} \cup DateTimes,
     session_token : {None, <<"a">>}, user_agent : {NoneS, "ua"}]

InitSession ==
    /\ Client_constructed
    /\ session_data = Session /\ ~file.exists
    /\ cookieJar = NetworkSession
    /\ network = NetworkSession_init

\* a Session is built: Session(user=..., cf_bm=..., ...)
Session_new ==
    /\ lastOp \in {"__init__", "from_json"}
    /\ \E s \in Sessions : session_data' = s
    /\ lastOp' = "Session"
    /\ ret' = RetNone
    /\ UNCHANGED <<network, cookieJar, authenticator, cookie, file,
                   access_token, first_request, models, conversation,
                   conversations, stack, op, hist, lastGet>>

\* data = session.to_json()
Session_to_json_call ==
    /\ lastOp = "Session"
    /\ ret' = RetVal(Session_to_json(session_data))
    /\ lastOp' = "to_json"
    /\ UNCHANGED <<network, cookieJar, authenticator, session_data, cookie,
                   file, access_token, first_request, models, conversation,
                   conversations, stack, op, hist, lastGet>>

\* Session.from_json(data): a new Session, or the error of strptime
Session_from_json_call ==
    /\ lastOp = "to_json"
    /\ ret' = IF from_json_raises(ret.val) # NoneS
              THEN Raised(from_json_raises(ret.val))
              ELSE RetVal(Session_from_json(ret.val))
    /\ lastOp' = "from_json"
    /\ UNCHANGED <<network, cookieJar, authenticator, session_data, cookie,
                   file, access_token, first_request, models, conversation,
                   conversations, stack, op, hist, lastGet>>

NextSession ==
    \/ Session_new
    \/ Session_to_json_call
    \/ Session_from_json_call

SpecSession == InitSession /\ [][NextSession]_vars

(***************************************************************************)
(* SpecNet: the requests are sent on a NetworkSession that has some        *)
(* default headers and cookies or none, from the main loop or from an      *)
(* event handler that runs while an earlier send waits for its reply.      *)
(***************************************************************************)
NextNet ==
    \/ send
    \/ reply_finished
    \/ handle_connection_timeout
    \/ wait_for_reply

SpecNet == InitNet /\ [][NextNet]_vars

\* The event loop runs: wait_for_reply calls processEvents() until its reply
\* is finished (utils/network.py lines 80-81), so the timeout of an armed
\* single-shot QTimer is delivered and the test of the loop is taken again.
\* Nothing makes the server answer: reply_finished has no fairness.
SpecNetLive ==
    /\ SpecNet
    /\ WF_vars(handle_connection_timeout)
    /\ WF_vars(wait_for_reply)

(***************************************************************************)
(* Properties of _get and refresh_auth, checked under Spec.                *)
(***************************************************************************)
\* C1: a _get call that handles 401 and holds an access token, whose GET is
\* answered 401, calls refresh_auth(); if that returns True the same GET is
\* issued exactly once more by a _get that does not handle 401, and whatever
\* the retry returns (a second 401 included) is the result, with no third
\* request; if it returns False the first 401 is the result and nothing is
\* retried.  A _get that does not handle 401 never refreshes or retries.
C1_RetryAtMostOnce ==
    /\ (lastGet.valid /\ lastGet.update /\ lastGet.held /\ lastGet.first = 401) =>
        /\ lastGet.refreshed \in {"True", "False"}
        /\ lastGet.refreshed = "True" =>
            /\ lastGet.retries = 1
            /\ ~lastGet.retry_update
            /\ lastGet.requests = 2
            /\ lastGet.code = lastGet.retried
        /\ lastGet.refreshed = "False" =>
            /\ lastGet.retries = 0
            /\ lastGet.requests = 1
            /\ lastGet.code = 401
        /\ lastGet.path # SESSION_PATH => lastGet.total = lastGet.requests
    /\ (lastGet.valid /\ ~lastGet.update) =>
        /\ lastGet.refreshed = NoneS
        /\ lastGet.retries = 0
        /\ lastGet.requests = 1

\* a _get returned the 401 of its one retry
C1_Witness ==
    /\ lastGet.valid /\ lastGet.update /\ lastGet.held
    /\ lastGet.first = 401 /\ lastGet.refreshed = "True"
    /\ lastGet.retries = 1 /\ lastGet.code = 401

\* the _get calls for the session endpoint that are waiting for a
\* refresh_auth() they started
SessionRefreshes ==
    {i \in 1..Depth : /\ stack[i].fn = "_get"
                      /\ stack[i].path = SESSION_PATH
                      /\ stack[i].pc = "refreshing"}

\* C2: _get and refresh_auth do not keep calling each other: while a _get for
\* the session endpoint waits for the refresh_auth() its 401 started, no
\* second _get for the session endpoint starts another one, so the 401 of
\* the session endpoint is surfaced after at most one retry.
C2_SessionRefreshNotNested == Cardinality(SessionRefreshes) <= 1

\* C3: when the session token is set the jar holds a session cookie equal to
\* it, and when the session token is None the jar holds no session cookie.
\* (A token that is the empty string is not held to the first half.)
C3_TokenMatchesCookie ==
    /\ Truthy(session_data.session_token) => cookie = session_data.session_token
    /\ session_data.session_token = None => cookie = None

\* C4: a _get that handles 401, made after the Client's first request, for a
\* path other than the warm-up and the session endpoint, whose GET is
\* answered 401 while a non-empty, unexpired session token is held (the jar
\* holding the same token), calls refresh_auth() before it returns, whether
\* or not an access token is held.
C4_RefreshOn401 ==
    (/\ lastGet.valid /\ lastGet.update /\ ~lastGet.boot
     /\ lastGet.path \notin {CHAT_PATH, SESSION_PATH}
     /\ lastGet.first = 401 /\ lastGet.usable
     /\ lastOp \in {"_get:request", "_get:refreshed", "_get:retried"}
     /\ cookie = session_data.session_token)
        => lastGet.refreshed # NoneS

Cleared == [session_token |-> None, user |-> NoneS, cookie |-> None,
            file_exists |-> FALSE]

\* C5: after the session_token deleter has run (called from outside or by
\* refresh_auth on an expired token) the Session is cleared, the jar holds
\* no session cookie and the session file does not exist; signedOut has been
\* emitted once per run of the deleter, and its slots saw those changes made.
C5_SignOutClears ==
    /\ lastOp \in {"session_token.deleter", "refresh_auth:deleted"} =>
        /\ session_data = Session
        /\ cookie = None
        /\ ~file.exists
        /\ op.seen = Cleared
        /\ op.deleted = 1
    /\ op.signedOut = op.deleted

\* the deleter removed a token that was held in all three stores
C5_Witness ==
    /\ lastOp = "refresh_auth:deleted"
    /\ hist.had_token
    /\ op.signedOut = 1
    /\ ret = RetVal("False")

\* refresh_auth() is about to run with no token, an empty one or an expired one
RefreshWithoutToken ==
    /\ Running("refresh_auth", "start")
    /\ \/ ~Truthy(session_data.session_token)
       \/ session_data.session_expires = "past"

\* what a refresh_auth() without a usable token does, whatever it leaves as
\* the session token
RefusedRefresh ==
    /\ ret' = RetVal("False")
    /\ stack' = SubSeq(stack, 1, Depth - 1)
    /\ op'.authenticationRequired = op.authenticationRequired + 1
    /\ op'.gets = op.gets /\ op'.posts = op.posts
    /\ access_token' = access_token
    /\ session_data'.user \in {session_data.user, NoneS}

\* C6 (as amended): refresh_auth() called with a missing, empty or expired
\* session token returns False, emits authenticationRequired exactly once,
\* sends no request and updates neither the access token nor the user; the
\* session token is None afterwards, or still the empty string it was.
C6_RefusedRefreshLeavesNoToken ==
    [][(RefreshWithoutToken /\ lastOp' # "clock") =>
          /\ RefusedRefresh
          /\ ~Truthy(session_data'.session_token)
          /\ session_data'.session_token = <<>> =>
                 session_data.session_token = <<>>]_vars

\* C6 (as stated): ... and the session token is None afterwards.
C6_RefusedRefreshLeavesNone ==
    [][(RefreshWithoutToken /\ lastOp' # "clock") =>
          /\ RefusedRefresh
          /\ session_data'.session_token = None]_vars

\* refresh_auth() has refused a token that is the empty string
C6_Witness ==
    /\ lastOp = "refresh_auth:blocked"
    /\ ret = RetVal("False")
    /\ op.authenticationRequired = 1
    /\ op.gets = ZeroGets
    /\ session_data.session_token = <<>>

BootOrder == <<"warmup", "refresh_auth", "request">>

\* C8: the first _get of a Client issues GET chat, then calls refresh_auth(),
\* then issues the GET it was called for, in that order; GET chat is issued
\* once in the life of the Client.
C8_WarmUpOnce ==
    /\ hist.warmups <= 1
    /\ hist.first_get \in {NoneS, CHAT_PATH}
    /\ Len(hist.boot) <= Len(BootOrder)
    /\ hist.boot = SubSeq(BootOrder, 1, Len(hist.boot))
    /\ hist.warmups = 1 => ~first_request

\* the first request has been made in full
C8_Witness ==
    /\ hist.boot = BootOrder
    /\ hist.warmups = 1
    /\ Idle

RECURSIVE Flattened(_)
Flattened(pairs) ==
    IF pairs = <<>> THEN <<>> ELSE Head(pairs) \o Flattened(Tail(pairs))

\* every send_message call made so far has succeeded or is still running
AllSucceeded ==
    hist.sends = Len(hist.sent)
                 + (IF Depth > 0 /\ stack[1].fn = "send_message"
                       /\ op.receivedMessage = 0
                    THEN 1 ELSE 0)

\* C9: after N successful send_message calls on a Conversation that was
\* empty, it holds exactly 2N messages: for each call, in the order of the
\* calls, the message sent followed by the reply to it.
C9_TwoMessagesPerSend ==
    AllSucceeded =>
        /\ Len(conversation.messages) = 2 * Len(hist.sent)
        /\ conversation.messages = Flattened(hist.sent)
        /\ \A k \in 1..Len(hist.sent) :
            /\ conversation.messages[2 * k - 1].role = "user"
            /\ conversation.messages[2 * k].role = "assistant"
            /\ k > 1 => conversation.messages[2 * k - 3].uuid
                            < conversation.messages[2 * k - 1].uuid

\* two calls have succeeded
C9_Witness ==
    /\ Idle
    /\ hist.sends = 2
    /\ Len(hist.sent) = 2
    /\ Len(conversation.messages) = 4

\* C10: once the id of a Conversation is set, no step changes it.
C10_ConversationIdKept ==
    [][conversation.uuid # NoneS => conversation'.uuid = conversation.uuid]_vars

\* a later reply carried another id, and the Conversation kept its own
C10_Witness ==
    /\ conversation.uuid # NoneS
    /\ Len(hist.sent) = 2
    /\ hist.replied # conversation.uuid

\* the uuids of the messages a Conversation holds
Members(c) == {c.messages[i].uuid : i \in 1..Len(c.messages)}

\* C11: the Action that send_message POSTs names as parent the last message
\* of the conversation, or, when the conversation is empty, a new root
\* message that is neither in the conversation nor the message sent; while
\* every send so far has succeeded the parent of a later Action is the reply
\* of the send before it, and after the first successful send the
\* conversation has an id and exactly 2 messages.
C11_ActionParent ==
    /\ Running("send_message", "posted") =>
        /\ Top.action.conversation_id = conversation.uuid
        /\ conversation.messages # <<>> =>
               Top.action.parent
                   = conversation.messages[Len(conversation.messages)].uuid
        /\ conversation.messages = <<>> =>
            /\ Top.action.parent # Top.action.message
            /\ Top.action.parent \notin ReplyIds
        /\ Top.action.parent \notin Members(conversation) =>
               conversation.messages = <<>>
        /\ (AllSucceeded /\ hist.sent # <<>>) =>
               Top.action.parent = hist.sent[Len(hist.sent)][2].uuid
    /\ (AllSucceeded /\ Len(hist.sent) = 1) =>
        /\ conversation.uuid # NoneS
        /\ Len(conversation.messages) = 2

\* the second Action hangs off the reply to the first
C11_Witness ==
    /\ Running("send_message", "posted")
    /\ AllSucceeded
    /\ Len(hist.sent) = 1
    /\ Top.action.parent = hist.sent[1][2].uuid

\* a well-formed data frame: a message and a conversation id
WellFormed(frame) ==
    frame.kind = "data" /\ frame.message # 0 /\ frame.conversation_id # NoneS

\* C12: a body of fewer than 3 frames makes send_message raise ValueError
\* and leaves the conversation without the message; a body of exactly 3
\* frames (a well-formed data frame, [DONE], an empty frame) is parsed from
\* its first frame: the call returns and the reply appended is that frame's
\* message.
C12_ThirdFromLastFrame ==
    lastOp = "send_message:reply" =>
        /\ Len(op.text) < 3 =>
            /\ ret = Raised("ValueError")
            /\ op.receivedMessage = 0
        /\ (/\ Len(op.text) = 3
            /\ WellFormed(op.text[1])
            /\ op.text[2] = DoneFrame
            /\ op.text[3] = EmptyFrame) =>
            /\ ret = RetVal(NoneS)
            /\ conversation.messages[Len(conversation.messages)].uuid
                   = op.text[1].message

\* a body of exactly 3 frames has been parsed
C12_Witness ==
    /\ lastOp = "send_message:reply"
    /\ Len(op.text) = 3
    /\ WellFormed(op.text[1])
    /\ ret = RetVal(NoneS)

\* C13: a send_message call that has returned emitted receivedMessage
\* exactly once, with the reply that is the last message of the
\* conversation and with the sent message and the reply already appended;
\* a send_message call that raised emitted nothing.
C13_ReceivedOncePerSend ==
    (Idle /\ hist.sends > 0) =>
        /\ ret.kind = "value" =>
            /\ op.receivedMessage = 1
            /\ op.emitted.messages = conversation.messages
            /\ Len(conversation.messages) >= 2
            /\ op.emitted.reply
                   = conversation.messages[Len(conversation.messages)].uuid
            /\ conversation.messages[Len(conversation.messages) - 1].role
                   = "user"
        /\ ret.kind = "raised" => op.receivedMessage = 0

\* a second send has announced its reply
C13_Witness ==
    /\ Idle
    /\ hist.sends = 2
    /\ ret.kind = "value"
    /\ op.receivedMessage = 1
    /\ Len(op.emitted.messages) = 4

(***************************************************************************)
(* Claims about the handshake of the Authenticator, under SpecAuth.        *)
(***************************************************************************)
\* a sign-in has been made and authenticate has returned to its caller
SignInEnded == Idle /\ hist.sign_ins > 0

\* C14: authenticate never propagates an exception; an error raised in a
\* step of the handshake gives exactly one authenticationFailed carrying that
\* error and no authenticationSuccessful; a handshake that completes gives
\* exactly one authenticationSuccessful and no authenticationFailed.
C14_OneOutcome ==
    /\ ret.kind # "raised"
    /\ op.authenticationFailed + op.authenticationSuccessful <= 1
    /\ SignInEnded =>
            IF op.error # NoneS
            THEN /\ op.authenticationFailed = 1
                 /\ op.authenticationSuccessful = 0
                 /\ op.reported = op.error
            ELSE /\ op.authenticationSuccessful = 1
                 /\ op.authenticationFailed = 0
                 /\ op.requests = HandshakeOrder

\* a sign-in ended by the captcha that could not be rendered
C14_Witness ==
    /\ SignInEnded
    /\ op.page = "unrendered captcha"
    /\ op.error = "RuntimeError"
    /\ op.authenticationFailed = 1

\* the first steps of the handshake, in the order of the source
IsPrefix(s, t) == Len(s) <= Len(t) /\ s = SubSeq(t, 1, Len(s))

\* the handshake is at a step of _authenticate
AtStep ==
    /\ Depth > 0
    /\ stack[1].fn = "authenticate"
    /\ \E i \in 1..Len(HandshakeOrder) : stack[1].pc = HandshakeOrder[i]

\* C15: within one attempt the steps are taken in the fixed order, each one
\* only after the one before succeeded; after a step failed nothing of the
\* attempt runs any more, and the next attempt starts at the credential check.
C15_FixedOrder ==
    /\ IsPrefix(op.requests, HandshakeOrder)
    /\ AtStep => /\ op.error = NoneS
                 /\ Len(op.requests) < Len(HandshakeOrder)
                 /\ stack[1].pc = HandshakeOrder[Len(op.requests) + 1]
    /\ op.error # NoneS => Idle
    /\ lastOp = "sign_in:call" =>
            op.requests = <<>> /\ stack[1].pc = "credentials"

\* a second attempt, after a first one that ended, failed at the password
C15_Witness ==
    /\ SignInEnded
    /\ hist.sign_ins = 2
    /\ op.error = "RuntimeError"
    /\ op.requests = SubSeq(HandshakeOrder, 1, Position("password"))

\* the login page of the attempt embedded a captcha image
EmbedsCaptcha == op.page \in {"captcha", "unrendered captcha"}

\* the requests of the attempt that follow the login page
AfterLoginPage ==
    SubSeq(op.requests, Position("login_page") + 1, Len(op.requests))

\* the captcha was announced, nothing is requested before a text arrives
\* after the announcement, and the username form carries the first such text
Solved ==
    /\ op.captchaEncountered = 1
    /\ op.solved = <<>> => AfterLoginPage = <<>>
    /\ AfterLoginPage # <<>> => op.payload = op.solved[1]

\* no captcha was announced and the username form carries no captcha field
Unasked ==
    /\ op.captchaEncountered = 0
    /\ AfterLoginPage # <<>> => op.payload = "absent"

\* C16 as stated: every login page that embeds a captcha image makes the
\* Authenticator emit captchaEncountered and wait for solveCaptcha; a page
\* without one does neither.
C16_CaptchaAnnounced ==
    /\ EmbedsCaptcha => Solved
    /\ ~EmbedsCaptcha => Unasked

\* C16, amended: a login page whose captcha image can be rendered makes the
\* Authenticator emit captchaEncountered once and request nothing until a
\* solveCaptcha text arrives after the emission, the first of which is the
\* captcha field of the username form; a captcha image that cannot be
\* rendered ends the attempt with a RuntimeError, no captchaEncountered and
\* no further request; a page without a captcha gives no captchaEncountered
\* and no captcha field.
C16_RenderedCaptchaAnnounced ==
    /\ op.page = "captcha" => Solved
    /\ op.page = "unrendered captcha" =>
            /\ op.captchaEncountered = 0
            /\ op.error = "RuntimeError"
            /\ AfterLoginPage = <<>>
    /\ ~EmbedsCaptcha => Unasked

\* a text came before the captcha, two different ones after it, and the
\* username form went out
C16_Witness ==
    /\ op.page = "captcha"
    /\ op.early
    /\ Len(op.solved) = 2
    /\ op.solved[1] # op.solved[2]
    /\ "username" \in {op.requests[i] : i \in 1..Len(op.requests)}

\* C17: cloudflare_clearance returns only after the clearance cookie and the
\* user agent were captured: on return cf_clearance and user_agent are
\* non-empty and is_valid_clearance() is true.
C17_ClearanceCaptured ==
    lastOp = "cloudflare_clearance:return" =>
        /\ TruthyS(session_data.cf_clearance)
        /\ TruthyS(session_data.user_agent)
        /\ Session_is_valid_clearance(session_data)

\* C18: as long as a sign-in attempt has not emitted authenticationSuccessful
\* the session token is the one the attempt started with, so a failed attempt
\* leaves it unchanged; it is set only by the step that ends a successful
\* handshake and emits authenticationSuccessful.
C18_TokenSetOnSuccessOnly ==
    /\ hist.sign_ins > 0 /\ op.authenticationSuccessful = 0 =>
            session_data.session_token = op.token0
    /\ lastOp = "authenticate:session" /\ op.authenticationSuccessful = 1 =>
            session_data.session_token = authenticator.session_token

\* an attempt of a Client that held a token failed at the last request, after
\* the user of the session was written
C18_Witness ==
    /\ SignInEnded
    /\ op.authenticationFailed = 1
    /\ op.requests = HandshakeOrder
    /\ session_data.user = "u1"
    /\ Truthy(op.token0)
    /\ authenticator.session_token # op.token0

(***************************************************************************)
(* Claims about the cookie jar of a NetworkSession, under SpecJar.         *)
(***************************************************************************)
\* the last call was clear_cookies
Clearing == cookieJar.call.fn = "clear_cookies"

\* name given without both domain and path, or path given without domain
OutOfOrder(call) ==
    \/ call.name # NoneS /\ (call.domain = NoneS \/ call.path = NoneS)
    \/ call.path # NoneS /\ call.domain = NoneS

\* the cookies of the given specificity
Matching(cookies, call) ==
    {c \in cookies :
        /\ call.domain # NoneS => c.domain = call.domain
        /\ call.path # NoneS => c.path = call.path
        /\ call.name # NoneS => c.name = call.name}

\* C19: clear_cookies with name but not both domain and path, or with path
\* but no domain, raises ValueError and removes no cookie, whatever the jar
\* holds, the empty jar included.
C19_OutOfOrderRaises ==
    Clearing /\ OutOfOrder(cookieJar.call) =>
        /\ cookieJar.call.raised = "ValueError"
        /\ cookieJar.cookies = cookieJar.call.before

\* C20: clear_cookies with arguments in a valid order removes exactly the
\* cookies of the given specificity, leaves every other cookie as it was,
\* and returns True iff it removed a cookie.
C20_RemovesMatching ==
    Clearing /\ ~OutOfOrder(cookieJar.call) =>
        LET call == cookieJar.call
        IN  /\ call.raised = NoneS
            /\ cookieJar.cookies = call.before \ Matching(call.before, call)
            /\ call.returned <=> cookieJar.cookies # call.before

\* a domain and a path were given: two cookies removed, one of the same
\* domain and another path left
C20_Witness ==
    /\ Clearing
    /\ cookieJar.call.name = NoneS /\ cookieJar.call.path # NoneS
    /\ Cardinality(cookieJar.call.before) = 3
    /\ Cardinality(cookieJar.cookies) = 1
    /\ \E c \in cookieJar.cookies : c.domain = cookieJar.call.domain
    /\ cookieJar.call.returned

(***************************************************************************)
(* Claims about the header mapping, under SpecHeaders.                     *)
(***************************************************************************)
\* the keys that differ from key in letter case only
Variants(key) == {k \in HeaderNames : lower(k) = lower(key)}

LogicalKeys == {lower(k) : k \in HeaderNames}

\* C24: keys that differ in letter case denote one entry: after set(k, v)
\* every variant of k is contained and gets v; after delete no variant is
\* contained; the length counts the logical keys; iteration yields each key
\* once, in the casing of its most recent assignment.
C24_OneLogicalKey ==
    LET d == network.headers
        call == network.call
    IN  /\ call.fn = "set" =>
                \A k \in Variants(call.key) :
                    contains(d, k) /\ getitem(d, k) = call.value
        /\ call.fn = "del" =>
                \A k \in Variants(call.key) :
                    ~contains(d, k) /\ getitem(d, k) = "KeyError"
        /\ len(d) = Cardinality({low \in LogicalKeys :
                                    network.assigned[low] # NoneS})
        /\ \A low \in LogicalKeys :
                IF network.assigned[low] = NoneS
                THEN \A i \in 1..len(d) : lower(iter(d)[i]) # low
                ELSE \E i \in 1..len(d) :
                        /\ iter(d)[i] = network.assigned[low]
                        /\ \A j \in 1..len(d) :
                                lower(iter(d)[j]) = low => j = i

\* a key set under one casing, then under another, with another key present
\* and one deleted under a third casing
C24_Witness ==
    /\ network.call.fn = "set"
    /\ network.call.key = "X-FOO"
    /\ len(network.headers) = 2
    /\ network.headers[1].key = "X-FOO"
    /\ network.headers[2].key = "accept"

(***************************************************************************)
(* Properties of Request.send, checked under SpecNet.                      *)
(***************************************************************************)
Sent == network.call.fn = "send"

\* C21: whenever no send is executing, the redirect policy of the session is
\* its default policy, also after a send that ended with an error, and a
\* request with allow_redirects=True is never dispatched under the manual
\* policy.
C21_RedirectPolicyRestored ==
    Sent =>
        /\ network.redirectPolicy = default_redirect_policy
        /\ (network.call.raised = NoneS /\ network.call.allow_redirects)
            => network.call.dispatched.redirectPolicy
                # "ManualRedirectPolicy"

\* C22: after send has returned, the proxy of the session is what it was
\* before the call, and a request without a proxies argument goes out
\* through the proxy the session started with.
C22_ProxyRestored ==
    (Sent /\ network.call.raised = NoneS) =>
        /\ network.replies[network.call.request].returned
            => network.proxy = network.call.before.proxy
        /\ network.call.proxies = <<"None">>
            => network.call.dispatched.proxy = NetworkSession_init.proxy

\* the value a dict, given by its items, has for a key
Value(pairs, key) ==
    LET at == {i \in 1..Len(pairs) : pairs[i][1] = key}
    IN  IF at = {} THEN NoneS ELSE pairs[CHOOSE i \in at : TRUE][2]

\* C23: a request is dispatched with the default headers of the session
\* overridden by its own headers, names compared without case, and with a
\* Cookie header that is the cookies of the session overridden by its own
\* cookies; the default headers and the jar of the session are unchanged.
C23_MergedHeadersAndCookies ==
    (Sent /\ network.call.raised # "ValueError") =>
        LET c == network.call
            own == update(CaseInsensitiveDict, c.headers)
        IN  /\ c.raised = NoneS
            /\ \A k \in HeaderNames :
                    getitem(c.dispatched.headers, k) =
                        IF contains(own, k) THEN getitem(own, k)
                        ELSE getitem(c.before.headers, k)
            /\ c.cookies # <<>> =>
                /\ getitem(c.dispatched.headers, "Cookie")
                        = "<request_cookies>"
                /\ \A n \in JarNames :
                        Value(c.request_cookies, n) =
                            IF Value(c.cookies, n) # NoneS
                            THEN Value(c.cookies, n)
                            ELSE Value(cookies_of(c.before.cookies), n)
            /\ network.headers = c.before.headers
            /\ cookieJar.cookies = c.before.cookies

(***************************************************************************)
(* Properties of the watchdog, checked under SpecNetLive.                  *)
(***************************************************************************)
\* the watchdog is armed at dispatch exactly for a timeout that is not None
\* or 0, its timeout aborts the reply exactly when the reply has not
\* finished, and nothing else aborts a reply
Watchdog ==
    /\ (Sent /\ network.call.raised = NoneS)
        => (network.replies[network.call.request].timer = "armed"
            <=> network.call.timeout \notin {NoneS, "0"})
    /\ network.call.fn = "timeout"
        => /\ network.call.aborted <=> ~network.call.was_finished
           /\ network.replies[network.call.request].aborted
                <=> network.call.aborted
    /\ \A r \in Requests :
            network.replies[r].aborted => network.replies[r].timer = "fired"

\* the send of r is in wait_for_reply
Waiting(r) == \E i \in 1..Len(network.waiting) : network.waiting[i] = r

\* a send made by an event handler during the wait for r is itself waiting,
\* for a reply that has no watchdog and has not finished
Blocked(r) ==
    \E i, j \in 1..Len(network.waiting) :
        /\ network.waiting[i] = r
        /\ i < j
        /\ network.replies[network.waiting[j]].timer = "none"
        /\ ~network.replies[network.waiting[j]].finished

\* a reply that has finished without an abort is not aborted later
FinishedStays ==
    [][\A r \in Requests :
            (network.replies[r].finished /\ ~network.replies[r].aborted)
                => ~network.replies[r]'.aborted]_vars

\* C26 as stated: the watchdog of a request with a non-zero timeout aborts
\* the reply if and only if it has not finished, no watchdog is armed for a
\* timeout of None or 0 and nothing else aborts a reply, and a send that
\* waits for a reply with a watchdog eventually returns.
C26_WatchdogEndsWait ==
    /\ []Watchdog
    /\ FinishedStays
    /\ \A r \in Requests :
            (Waiting(r) /\ network.replies[r].timer # "none")
                ~> network.replies[r].returned

\* C26, amended: as stated, but the send that waits for a reply with a
\* watchdog eventually returns or is held by a send nested in its wait that
\* waits for an unfinished reply without a watchdog.
C26_WatchdogEndsWaitUnlessHeld ==
    /\ []Watchdog
    /\ FinishedStays
    /\ \A r \in Requests :
            (Waiting(r) /\ network.replies[r].timer # "none")
                ~> (network.replies[r].returned \/ Blocked(r))

\* the watchdog fires during the wait for a reply the server has not
\* answered and aborts it
C26_Witness ==
    /\ network.call.fn = "timeout"
    /\ network.call.aborted
    /\ Waiting(network.call.request)
    /\ network.replies[network.call.request].finished

(***************************************************************************)
(* Properties of Session.to_json and Session.from_json, checked under      *)
(* SpecSession.                                                            *)
(***************************************************************************)
\* the keys to_json emits, and null or {} for every absent field
SameKeys(d, s) ==
    /\ DOMAIN d = {"user", "cloudflare", "expires", "token", "user_agent"}
    /\ DOMAIN d.cloudflare
        = {"bm", "unique_visitor_id", "clearance", "expires"}
    /\ s.user = NoneS <=> d.user = <<>>
    /\ s.cf_bm = NoneS <=> d.cloudflare.bm = NoneS
    /\ s.cf_unique_visitor_id = NoneS
        <=> d.cloudflare.unique_visitor_id = NoneS
    /\ s.cf_clearance = NoneS <=> d.cloudflare.clearance = NoneS
    /\ s.cf_expires = NoneS <=> d.cloudflare.expires = None
    /\ s.session_expires = NoneS <=> d.expires = None
    /\ s.session_token = None <=> d.token = None
    /\ s.user_agent = NoneS <=> d.user_agent = NoneS

\* C25: Session.from_json(Session.to_json(s)) equals s for every Session s,
\* and to_json always emits the same keys, with null or {} for the fields
\* that are absent.
C25_RoundTrip ==
    /\ lastOp = "to_json" => SameKeys(ret.val, session_data)
    /\ lastOp = "from_json"
        => ret.kind = "value" /\ ret.val = session_data

\* a Session with a user and both timestamps, one with microseconds, has
\* come back from its dump
C25_Witness ==
    /\ lastOp = "from_json"
    /\ ret.kind = "value"
    /\ ret.val.user = "u1"
    /\ ret.val.cf_expires = "future_us"
    /\ ret.val.session_expires = "past"
    /\ ret.val.cf_bm = NoneS

(***************************************************************************)
(* Properties of two calls of refresh_auth in a row, checked under         *)
(* SpecRefresh.                                                            *)
(***************************************************************************)
\* the second of the two calls has returned to the caller
SecondReturned == Running("refresh_twice", "second") /\ ret.kind = "value"

\* C27: with an unexpired session token and a server that answers the
\* session endpoint the same way each time, refresh_auth() called twice in
\* a row returns True both times and leaves the user, the session token,
\* the access token and the session cookie as the first call left them.
C27_RefreshIdempotent ==
    /\ (Running("refresh_twice", "first") /\ ret.kind = "value"
         /\ Top.usable)
        => ret.val = "True"
    /\ (SecondReturned /\ Top.usable)
        => /\ ret.val = "True"
           /\ session_data.user = Top.first.store.session_data.user
           /\ session_data.session_token
                = Top.first.store.session_data.session_token
           /\ access_token = Top.first.access_token
           /\ cookie = Top.first.store.cookie

\* both calls have returned True and the Client holds a user, an access
\* token and the session cookie of the server
C27_Witness ==
    /\ SecondReturned
    /\ Top.usable
    /\ Top.first.ret = "True"
    /\ ret.val = "True"
    /\ session_data.user = "u1"
    /\ access_token # None
    /\ op.gets[SESSION_PATH] >= 2

(***************************************************************************)
(* Properties of send_message and of sign-out, checked under SpecChat and  *)
(* Spec.                                                                   *)
(***************************************************************************)
\* C29: a send_message that raises leaves the messages and the id of the
\* Conversation and the conversations of the Client as they were before
\* the call; the only step of send_message that assigns them is the one
\* that reads the reply.
C29_RaiseLeavesConversation ==
    [][(/\ Depth > 0
        /\ stack[1].fn = "send_message"
        /\ ret'.kind = "raised")
            => /\ conversation' = conversation
               /\ conversations' = conversations]_vars

\* the session token has just been deleted
SignedOut == lastOp \in {"session_token.deleter", "refresh_auth:deleted"}

\* C30: after the deletion of the session token the Client holds no bearer
\* credential: access_token is None and the default headers of the session
\* have no Authorization entry.
C30_SignedOutNoBearer ==
    SignedOut => access_token = None /\ Authorization = None

(***************************************************************************)
(* Properties of a send_message started while another one waits, checked   *)
(* under SpecView.                                                         *)
(***************************************************************************)
\* the calls of send_message that have built and POSTed their Action and
\* wait for the reply
Posted ==
    {i \in 1..Depth : stack[i].fn = "send_message" /\ stack[i].pc = "posted"}

\* two of them, the second started while the first waits, with no message
\* appended to the Conversation in between
Overlapping ==
    {p \in Posted \X Posted :
        /\ p[1] < p[2]
        /\ stack[p[1]].action.messages = stack[p[2]].action.messages}

\* C28 as stated: a send_message started while another one on the same
\* Conversation waits for its reply builds its Action with the same parent
\* message id as the waiting one.
C28_SameParent ==
    \A p \in Overlapping :
        stack[p[1]].action.parent = stack[p[2]].action.parent

\* C28, amended: the two Actions have the same parent, the last message of
\* the Conversation, when the Conversation has messages; on an empty
\* Conversation each Action has a parent of its own, a new root message,
\* and neither carries a conversation id.
C28_SameLastMessage ==
    \A p \in Overlapping :
        LET first == stack[p[1]].action
            second == stack[p[2]].action
        IN  IF first.messages > 0
            THEN /\ first.parent = second.parent
                 /\ second.parent
                    = conversation.messages[second.messages].uuid
            ELSE /\ first.parent # second.parent
                 /\ first.conversation_id = NoneS
                 /\ second.conversation_id = NoneS

\* on a loaded Conversation a second send_message has POSTed its Action
\* while the first waits for its reply
C28_Witness ==
    /\ Overlapping # {}
    /\ conversation = LoadedConversation
    /\ Top.action.parent = 91

====
